---- MODULE Spec2Model ----
(***************************************************************************)
(* SHDP: the directional bit buffers, the frame codec, the version enum    *)
(* and the server dispatch, modelled from the Rust sources.                *)
(*                                                                         *)
(* Lengths, positions and u32 values go up to 2^32 and beyond, which is    *)
(* more than a TLC integer holds, so every such quantity is a two-limb     *)
(* natural <<hi, lo>> in base 2^16.  Bit vectors and byte vectors are kept *)
(* run-length encoded (a sequence of <<value, end>> runs, end being the    *)
(* number of elements up to and including the run, adjacent runs holding   *)
(* different values), so that a payload of 2^32 bits is a value the model  *)
(* can hold.                                                               *)
(***************************************************************************)
EXTENDS Integers, Sequences, FiniteSets, TLC

(***************************************************************************)
(* Two-limb naturals.                                                      *)
(***************************************************************************)
Base == 2^16

B(n) == <<n \div Base, n % Base>>

BAdd(a, b) ==
    LET lo == a[2] + b[2]
    IN  <<a[1] + b[1] + (lo \div Base), lo % Base>>

\* a - b, for b <= a
BSub(a, b) ==
    LET lo == a[2] - b[2]
    IN  IF lo >= 0 THEN <<a[1] - b[1], lo>> ELSE <<a[1] - b[1] - 1, lo + Base>>

BLt(a, b) == a[1] < b[1] \/ (a[1] = b[1] /\ a[2] < b[2])

BLe(a, b) == a = b \/ BLt(a, b)

BMod8(a) == a[2] % 8

\* a / 8 as an ordinary integer (a < 2^34)
BDiv8(a) == a[1] * (Base \div 8) + (a[2] \div 8)

\* 8 * n for an ordinary integer n < 2^28
BTimes8(n) == <<n \div (Base \div 8), (n % (Base \div 8)) * 8>>

\* the value as an ordinary integer (a < 2^31)
BInt(a) == a[1] * Base + a[2]

\* bit i (0 = least significant) of a value below 2^32
BBit(a, i) == IF i < 16 THEN (a[2] \div 2^i) % 2 ELSE (a[1] \div 2^(i - 16)) % 2

\* usize -> u32, usize -> u16, u32 -> u8
AsU32(a) == <<a[1] % Base, a[2]>>

AsU16(a) == a[2]

AsU8(a) == a[2] % 256

\* 1 << 32 (as usize, on a 64-bit target)
Pow2_32 == <<Base, 0>>

(***************************************************************************)
(* Run-length encoded vectors: a sequence of <<value, end>> where end is   *)
(* the number of elements up to and including the run.  Ends grow strictly *)
(* and adjacent runs hold different values.                                *)
(***************************************************************************)
RunLen(s) == IF s = <<>> THEN B(0) ELSE s[Len(s)][2]

\* the number of elements before run j
RunStart(s, j) == IF j = 1 THEN B(0) ELSE s[j - 1][2]

IsKept(e) == e[3]

\* the pieces <<value, end>> of raw that hold an element
RunFull(raw) ==
    SelectSeq([i \in 1..Len(raw) |-> <<raw[i][1], raw[i][2], raw[i][2] # RunStart(raw, i)>>],
              IsKept)

\* the last piece of every stretch of pieces holding one value
RunMerged(full) ==
    SelectSeq([i \in 1..Len(full) |->
                  <<full[i][1], full[i][2], i = Len(full) \/ full[i + 1][1] # full[i][1]>>],
              IsKept)

RunBare(marked) == <<>> \o [i \in 1..Len(marked) |-> <<marked[i][1], marked[i][2]>>]

\* the runs of a sequence of pieces <<value, end>> whose ends never decrease:
\* the empty pieces go, the adjacent pieces of one value become one run
RunCanon(raw) == RunBare(RunMerged(RunFull(<<>> \o raw)))

\* n more copies of v at the end
RunPush(s, v, n) ==
    IF n = B(0) THEN s
    ELSE IF s # <<>> /\ s[Len(s)][1] = v
         THEN [s EXCEPT ![Len(s)] = <<v, BAdd(@[2], n)>>]
         ELSE Append(s, <<v, BAdd(RunLen(s), n)>>)

\* the runs of t when by elements come before them
RunShift(t, by) == <<>> \o [i \in 1..Len(t) |-> <<t[i][1], BAdd(t[i][2], by)>>]

\* s followed by t: the runs that meet are one run when they hold the same value
RunCat(s, t) ==
    IF s = <<>> THEN t
    ELSE IF t = <<>> THEN s
    ELSE IF s[Len(s)][1] = t[1][1]
         THEN SubSeq(s, 1, Len(s) - 1) \o RunShift(t, RunLen(s))
         ELSE s \o RunShift(t, RunLen(s))

\* the run holding element k (from 0), for k below the length
RunIndex(s, k) == CHOOSE j \in 1..Len(s) : BLe(RunStart(s, j), k) /\ BLt(k, s[j][2])

\* s from run j on, without the k elements before
RunFrom(s, j, k) ==
    [i \in 1..(Len(s) - j + 1) |-> <<s[j + i - 1][1], BSub(s[j + i - 1][2], k)>>]

\* without its first k elements (empty when k exceeds the length)
RunDrop(s, k) ==
    IF BLe(RunLen(s), k) THEN <<>> ELSE RunFrom(s, RunIndex(s, k), k)

\* the runs before run j, then the elements of run j below k
RunUpTo(s, j, k) ==
    IF k = RunStart(s, j) THEN SubSeq(s, 1, j - 1)
    ELSE Append(SubSeq(s, 1, j - 1), <<s[j][1], k>>)

\* its first k elements (all of it when k exceeds the length)
RunTake(s, k) ==
    IF BLe(RunLen(s), k) THEN s ELSE RunUpTo(s, RunIndex(s, k), k)

\* element i (from 0), or dflt past the end
RunGetOr(s, i, dflt) ==
    IF BLe(RunLen(s), i) THEN dflt ELSE s[RunIndex(s, i)][1]

\* the runs of an explicit sequence
RunsOf(q) == RunCanon([i \in 1..Len(q) |-> <<q[i], B(i)>>])

(***************************************************************************)
(* Results and errors.                                                     *)
(***************************************************************************)
Ok(v) == [tag |-> "Ok", val |-> v]

Err(e) == [tag |-> "Err", err |-> e]

\* a Rust panic (unwrap on an Err, an index out of range): the thread unwinds
Panic == [tag |-> "Panic"]

Error(code, message, kind) == [code |-> code, message |-> message, kind |-> kind]

\* an absent value (Option::None), and the absence of a call
None == [tag |-> "None"]

NoCall == [op |-> "none"]

(***************************************************************************)
(* Bit orders and the packing of a bit vector into octets.                 *)
(***************************************************************************)
Msb0 == "Msb0"

Lsb0 == "Lsb0"

Opposite(order) == IF order = Msb0 THEN Lsb0 ELSE Msb0

\* bit i (0 = least significant) of an octet
OctetBit(v, i) == (v \div 2^i) % 2

\* the octet holding the first 8 bits of a bit vector (dead bits are zero)
ByteOfBits(order, bits) ==
    IF order = Msb0
    THEN RunGetOr(bits, B(0), 0) * 128 + RunGetOr(bits, B(1), 0) * 64
         + RunGetOr(bits, B(2), 0) * 32 + RunGetOr(bits, B(3), 0) * 16
         + RunGetOr(bits, B(4), 0) * 8 + RunGetOr(bits, B(5), 0) * 4
         + RunGetOr(bits, B(6), 0) * 2 + RunGetOr(bits, B(7), 0)
    ELSE RunGetOr(bits, B(7), 0) * 128 + RunGetOr(bits, B(6), 0) * 64
         + RunGetOr(bits, B(5), 0) * 32 + RunGetOr(bits, B(4), 0) * 16
         + RunGetOr(bits, B(3), 0) * 8 + RunGetOr(bits, B(2), 0) * 4
         + RunGetOr(bits, B(1), 0) * 2 + RunGetOr(bits, B(0), 0)

\* bit i (from 0) of an octet, in the order a BitVec<u8, order> indexes them
BitOfByte(order, v, i) == IF order = Msb0 THEN OctetBit(v, 7 - i) ELSE OctetBit(v, i)

\* the 8 bits of an octet, in the order a BitVec<u8, order> indexes them
BitsOfByte(order, v) == RunsOf([i \in 1..8 |-> BitOfByte(order, v, i - 1)])

\* the number of whole octets up to the end of run j
OctetsTo(bits, j) == BDiv8(bits[j][2])

\* run j ends inside an octet, and no later run ends inside that octet
ClosesOctet(bits, j) ==
    /\ BMod8(bits[j][2]) # 0
    /\ j = Len(bits) \/ OctetsTo(bits, j + 1) > OctetsTo(bits, j)

\* the runs that hold the bits of the octet run j ends in: at most seven runs
\* end inside an octet, and the run after them holds the rest of it
OctetRuns(bits, j) ==
    SubSeq(bits, IF j > 7 THEN j - 7 ELSE 1, IF j < Len(bits) THEN j + 1 ELSE j)

\* Run j of the bits gives two pieces of octets: the octets lying wholly in
\* it, then the octet it ends in when it closes that octet
OctetPiece(order, bits, j, whole) ==
    IF whole THEN <<IF bits[j][1] = 1 THEN 255 ELSE 0, B(OctetsTo(bits, j))>>
    ELSE IF ClosesOctet(bits, j)
    THEN <<ByteOfBits(order, RunDrop(OctetRuns(bits, j), BTimes8(OctetsTo(bits, j)))),
           B(OctetsTo(bits, j) + 1)>>
    ELSE <<0, B(OctetsTo(bits, j))>>

\* the octets of the bits as if every BitVec were ordered Msb0
into_vec_one_order(order, bits) ==
    RunCanon([i \in 1..(2 * Len(bits)) |->
                 OctetPiece(Msb0, bits, (i + 1) \div 2, i % 2 = 1)])

\* BitVec<u8, order>::into_vec (the last octet is filled with dead zero bits)
into_vec(order, bits) ==
    RunCanon([i \in 1..(2 * Len(bits)) |->
                 OctetPiece(order, bits, (i + 1) \div 2, i % 2 = 1)])

\* the number of octets in run j
OctetsIn(bytes, j) == BInt(BSub(bytes[j][2], RunStart(bytes, j)))

\* a run of 0x00 or of 0xFF octets is a run of bits
IsPlain(bytes, j) == bytes[j][1] \in {0, 255}

\* n copies of the bits s, one after the other, for n from 1
RECURSIVE RunRepeat(_, _)
RunRepeat(s, n) ==
    LET twice(h) == IF n % 2 = 0 THEN RunCat(h, h) ELSE RunCat(RunCat(h, h), s)
    IN  IF n = 1 THEN s ELSE twice(RunRepeat(s, n \div 2))

\* the bits of the octets of run j
OctetRunBits(order, bytes, j) ==
    IF OctetsIn(bytes, j) = 0 THEN <<>>
    ELSE IF IsPlain(bytes, j)
    THEN << <<IF bytes[j][1] = 255 THEN 1 ELSE 0, BTimes8(OctetsIn(bytes, j))>> >>
    ELSE RunRepeat(BitsOfByte(order, bytes[j][1]), OctetsIn(bytes, j))

\* the bits of the octets of runs lo..hi
RECURSIVE SliceBits(_, _, _, _)
SliceBits(order, bytes, lo, hi) ==
    IF lo > hi THEN <<>>
    ELSE IF lo = hi THEN OctetRunBits(order, bytes, lo)
    ELSE RunCat(SliceBits(order, bytes, lo, (lo + hi) \div 2),
                SliceBits(order, bytes, (lo + hi) \div 2 + 1, hi))

\* BitVec::<u8, order>::from_slice
from_slice(order, bytes) == SliceBits(order, bytes, 1, Len(bytes))

\* u8::reverse_bits
reverse_bits(v) ==
    OctetBit(v, 0) * 128 + OctetBit(v, 1) * 64 + OctetBit(v, 2) * 32 + OctetBit(v, 3) * 16
    + OctetBit(v, 4) * 8 + OctetBit(v, 5) * 4 + OctetBit(v, 6) * 2 + OctetBit(v, 7)

(***************************************************************************)
(* BitEncoder<R>                                                           *)
(***************************************************************************)
SizeErr(message) == Error(8, message, "SizeConstraintViolation")

BitEncoder_new(order) == [order |-> order, frame |-> <<>>]

\* for i in (0..n).rev() { frame.push((data >> i) & 1 == 1) }
\* bits hi-1 down to lo of data, the most significant first
FieldBits(data, hi, lo) ==
    RunCanon([i \in 1..(hi - lo) |-> <<BBit(data, hi - i), B(i)>>])

PushField(frame, data, n) == RunCat(frame, FieldBits(data, n, 0))

\* add_data without the check of the field width
add_data_unchecked_width(self, data, n) ==
    IF BLt(Pow2_32, BAdd(RunLen(self.frame), B(n)))
    THEN [self |-> self, res |-> Err(SizeErr("Maximum of 2^32 bits allowed"))]
    ELSE [self |-> [self EXCEPT !.frame = PushField(@, data, n)], res |-> Ok("self")]

\* data is a u32, n a u8
add_data(self, data, n) ==
    IF BLt(Pow2_32, BAdd(RunLen(self.frame), B(n)))
    THEN [self |-> self, res |-> Err(SizeErr("Maximum of 2^32 bits allowed"))]
    ELSE IF n > 32
    THEN [self |-> self,
          res |-> Err(SizeErr("Data of more than 32 bits long are not allowed"))]
    ELSE [self |-> [self EXCEPT !.frame = PushField(@, data, n)], res |-> Ok("self")]

\* the bits of octets lo..hi of bytes, each octet most significant bit first
BytesBits(bytes, lo, hi) ==
    RunCanon([p \in 1..(8 * (hi - lo + 1)) |->
                 <<OctetBit(bytes[lo + ((p - 1) \div 8)], 7 - ((p - 1) % 8)), B(p)>>])

\* k more octets fit in a frame of len bits: add_data lets the frame grow to
\* 2^32 bits and no further
OctetsFit(len, k) == ~BLt(Pow2_32, BAdd(len, B(8 * k)))

\* how many of count octets the loop of add_bytes pushes before add_data fails
OctetsPushed(len, count) ==
    CHOOSE k \in 0..count : /\ k = 0 \/ OctetsFit(len, k)
                            /\ k = count \/ ~OctetsFit(len, k + 1)

add_bytes_first(self, bytes, pushed) ==
    [self |-> [self EXCEPT !.frame = RunCat(@, BytesBits(bytes, 1, pushed))],
     res |-> IF pushed = Len(bytes) THEN Ok("self")
             ELSE Err(SizeErr("Maximum of 2^32 bits allowed"))]

\* for byte in bytes: self.add_data(byte as u32, 8)?
\* bytes is an explicit sequence of octets; the loop stops at the first octet
\* that no longer fits, the octets before it stay in the frame
add_bytes(self, bytes) ==
    add_bytes_first(self, bytes, OctetsPushed(RunLen(self.frame), Len(bytes)))

append_data_from(self, encoder) ==
    [self EXCEPT !.frame = RunCat(@, encoder.frame)]

reverse_bits_in_bytes(input) ==
    [i \in DOMAIN input |-> <<reverse_bits(input[i][1]), input[i][2]>>]

\* the bytes without the final reversal of each byte
BitEncoder_encode_unreversed(self) == into_vec(self.order, self.frame)

BitEncoder_encode(self) == reverse_bits_in_bytes(into_vec(self.order, self.frame))

(***************************************************************************)
(* BitDecoder<R>                                                           *)
(***************************************************************************)
BitDecoder_new(order, frame) ==
    [order |-> order, frame |-> from_slice(order, frame), position |-> B(0)]

\* the sum of bit j * 2^(top - j) for j in from..top, for the bits of rest
RECURSIVE LimbOf(_, _, _)
LimbOf(rest, from, top) ==
    IF top < from THEN 0
    ELSE IF top = from THEN RunGetOr(rest, B(from), 0)
    ELSE LET mid == (from + top) \div 2
         IN  LimbOf(rest, from, mid) * 2^(top - mid) + LimbOf(rest, mid + 1, top)

Max(a, b) == IF a >= b THEN a ELSE b

\* data = 0; data = (data << 1) | bit for each of the n bits that rest starts
\* with: a u32 keeps the last 32 of them
ReadBits(rest, n) ==
    <<LimbOf(rest, Max(0, n - 32), n - 17), LimbOf(rest, Max(0, n - 16), n - 1)>>

\* read_data refusing a read that ends exactly at the end of the buffer
read_data_off_by_one(self, n) ==
    IF BLe(RunLen(self.frame), BAdd(self.position, B(n)))
    THEN [self |-> self, res |-> Err(SizeErr("Out of bound"))]
    ELSE [self |-> [self EXCEPT !.position = BAdd(@, B(n))],
          res |-> Ok(ReadBits(RunTake(RunDrop(self.frame, self.position), B(n)), n))]

read_data(self, n) ==
    IF BLt(RunLen(self.frame), BAdd(self.position, B(n)))
    THEN [self |-> self, res |-> Err(SizeErr("Out of bound"))]
    ELSE [self |-> [self EXCEPT !.position = BAdd(@, B(n))],
          res |-> Ok(ReadBits(RunTake(RunDrop(self.frame, self.position), B(n)), n))]

\* self.frame[from..to] panics when the range leaves the vector
read_vec(self, from, to) ==
    IF BLe(RunLen(self.frame), from)
    THEN Err(Error(12, "out of bound", "SizeConstraintViolation"))
    ELSE IF BLt(RunLen(self.frame), to) \/ BLt(to, from)
    THEN Panic
    ELSE Ok(RunTake(RunDrop(self.frame, from), BSub(to, from)))

\* the BitVec of an encoder is public and add_bitvec checks no size
add_bitvec(self, bitvec) ==
    [self |-> [self EXCEPT !.frame = RunCat(@, bitvec)], res |-> Ok("self")]

(***************************************************************************)
(* Version                                                                 *)
(***************************************************************************)
\* the message is format!("Unknown version: {}", value); the formatted value
\* is not represented
\* from_u8 taking the byte 0 for version 1 as well
Version_from_u8_zero(value) ==
    IF value <= 1 THEN Ok("V1")
    ELSE Err(Error(10, "Unknown version: {}", "UnknownVersion"))

Version_from_u8(value) ==
    IF value = 1 THEN Ok("V1")
    ELSE Err(Error(10, "Unknown version: {}", "UnknownVersion"))

Version_to_u8(self) == CASE self = "V1" -> 1

(***************************************************************************)
(* Text.  A byte slice is a sequence of octets.  The messages of the       *)
(* library's errors are kept as strings; as_bytes gives their octets.      *)
(***************************************************************************)
Some(v) == [tag |-> "Some", val |-> v]

\* str::as_bytes, for the messages an ErrorResponse is built from and for
\* the names of the files that are sent
as_bytes(message) ==
    CASE message = "Event not found" ->
           <<69, 118, 101, 110, 116, 32, 110, 111, 116, 32, 102, 111, 117, 110,
           100>>
      [] message = "Listener not found for 0x0000" ->
           <<76, 105, 115, 116, 101, 110, 101, 114, 32, 110, 111, 116, 32, 102,
           111, 117, 110, 100, 32, 102, 111, 114, 32, 48, 120, 48, 48, 48, 48>>
      [] message = "Listener not found for 0x0005" ->
           <<76, 105, 115, 116, 101, 110, 101, 114, 32, 110, 111, 116, 32, 102,
           111, 117, 110, 100, 32, 102, 111, 114, 32, 48, 120, 48, 48, 48, 53>>
      [] message = "Out of bound" ->
           <<79, 117, 116, 32, 111, 102, 32, 98, 111, 117, 110, 100>>
      [] message = "out of bound" ->
           <<111, 117, 116, 32, 111, 102, 32, 98, 111, 117, 110, 100>>
      [] message = "Function name is empty" ->
           <<70, 117, 110, 99, 116, 105, 111, 110, 32, 110, 97, 109, 101, 32,
           105, 115, 32, 101, 109, 112, 116, 121>>
      [] message = "Table name is empty" ->
           <<84, 97, 98, 108, 101, 32, 110, 97, 109, 101, 32, 105, 115, 32, 101,
           109, 112, 116, 121>>
      [] message = "Bad Request" ->
           <<66, 97, 100, 32, 82, 101, 113, 117, 101, 115, 116>>
      [] message = "Expected Option<String>" ->
           <<69, 120, 112, 101, 99, 116, 101, 100, 32, 79, 112, 116, 105, 111,
           110, 60, 83, 116, 114, 105, 110, 103, 62>>
      [] message = "Expected Vec<String>" ->
           <<69, 120, 112, 101, 99, 116, 101, 100, 32, 86, 101, 99, 60, 83, 116,
           114, 105, 110, 103, 62>>
      [] message = "Expected Option<Value>" ->
           <<69, 120, 112, 101, 99, 116, 101, 100, 32, 79, 112, 116, 105, 111,
           110, 60, 86, 97, 108, 117, 101, 62>>
      [] message = "Maximum of 2^32 bits allowed" ->
           <<77, 97, 120, 105, 109, 117, 109, 32, 111, 102, 32, 50, 94, 51, 50,
           32, 98, 105, 116, 115, 32, 97, 108, 108, 111, 119, 101, 100>>
      [] message = "Data of more than 32 bits long are not allowed" ->
           <<68, 97, 116, 97, 32, 111, 102, 32, 109, 111, 114, 101, 32, 116, 104,
           97, 110, 32, 51, 50, 32, 98, 105, 116, 115, 32, 108, 111, 110, 103,
           32, 97, 114, 101, 32, 110, 111, 116, 32, 97, 108, 108, 111, 119, 101,
           100>>
      [] message = "Invalid file name: .." ->
           <<73, 110, 118, 97, 108, 105, 100, 32, 102, 105, 108, 101, 32, 110, 97, 109, 101, 58, 32, 46, 46>>
      [] message = "main.fyve" ->
           <<109, 97, 105, 110, 46, 102, 121, 118, 101>>
      [] message = "index.html" ->
           <<105, 110, 100, 101, 120, 46, 104, 116, 109, 108>>
      [] message = "test.html" ->
           <<116, 101, 115, 116, 46, 104, 116, 109, 108>>
      [] message = "a" ->
           <<97>>
      [] message = "" ->
           <<>>
      [] message = "8192 spaces" ->
           [i \in 1..8192 |-> 32]
      [] message = "Minimum of 8 bits allowed" ->
           <<77, 105, 110, 105, 109, 117, 109, 32, 111, 102, 32, 56, 32, 98, 105,
           116, 115, 32, 97, 108, 108, 111, 119, 101, 100>>

IsContinuation(b) == b \in 128..191

\* String::from_utf8(bytes).is_ok(): the well-formed UTF-8 byte sequences
RECURSIVE IsUtf8(_)
IsUtf8(s) ==
    IF s = <<>> THEN TRUE
    ELSE LET b == s[1]
             len == Len(s)
         IN  IF b < 128 THEN IsUtf8(Tail(s))
             ELSE IF b \in 194..223
             THEN len >= 2 /\ IsContinuation(s[2]) /\ IsUtf8(SubSeq(s, 3, len))
             ELSE IF b \in 224..239
             THEN /\ len >= 3
                  /\ s[2] \in (IF b = 224 THEN 160..191
                               ELSE IF b = 237 THEN 128..159 ELSE 128..191)
                  /\ IsContinuation(s[3])
                  /\ IsUtf8(SubSeq(s, 4, len))
             ELSE IF b \in 240..244
             THEN /\ len >= 4
                  /\ s[2] \in (IF b = 240 THEN 144..191
                               ELSE IF b = 244 THEN 128..143 ELSE 128..191)
                  /\ IsContinuation(s[3])
                  /\ IsContinuation(s[4])
                  /\ IsUtf8(SubSeq(s, 5, len))
             ELSE FALSE

\* str::split(sep).collect(): always at least one part
RECURSIVE Split(_, _)
Split(s, sep) ==
    IF \A i \in DOMAIN s : s[i] # sep THEN <<s>>
    ELSE LET k == CHOOSE i \in DOMAIN s : s[i] = sep /\ \A j \in 1..(i - 1) : s[j] # sep
         IN  <<SubSeq(s, 1, k - 1)>> \o Split(SubSeq(s, k + 1, Len(s)), sep)

RECURSIVE DecimalValue(_)
DecimalValue(digits) ==
    IF digits = <<>> THEN 0
    ELSE DecimalValue(SubSeq(digits, 1, Len(digits) - 1)) * 10
         + (digits[Len(digits)] - 48)

RECURSIVE StripZeros(_)
StripZeros(digits) ==
    IF Len(digits) > 1 /\ digits[1] = 48 THEN StripZeros(Tail(digits)) ELSE digits

\* str::parse::<i32>(): an optional sign, then decimal digits, within range
parse_i32(s) ==
    LET signed == s # <<>> /\ s[1] \in {43, 45}
        negative == s # <<>> /\ s[1] = 45
        body == StripZeros(IF signed THEN Tail(s) ELSE s)
        high == DecimalValue(SubSeq(body, 1, 9))
        last == body[10] - 48
    IN  IF body = <<>> \/ \E i \in DOMAIN body : body[i] \notin 48..57
        THEN Err("InvalidDigit")
        ELSE IF Len(body) <= 9
        THEN Ok(IF negative THEN 0 - DecimalValue(body) ELSE DecimalValue(body))
        ELSE IF Len(body) = 10
                /\ (high < 214748364
                    \/ (high = 214748364 /\ last <= (IF negative THEN 8 ELSE 7)))
        THEN Ok(IF negative THEN (0 - high * 10) - last ELSE high * 10 + last)
        ELSE Err("Overflow")

\* serde_json::Value: a value is named by the Rust expression that builds it
JsonValues ==
    {"json!({})", "Value::Null", "json!(true)", "json!(false)", "json!([])",
     "json!({\"test\": 5})"}

\* serde_json::Value::to_string: the compact text of the value
Value_to_string(value) ==
    CASE value = "json!({})" -> <<123, 125>>
      [] value = "Value::Null" -> <<110, 117, 108, 108>>
      [] value = "json!(true)" -> <<116, 114, 117, 101>>
      [] value = "json!(false)" -> <<102, 97, 108, 115, 101>>
      [] value = "json!([])" -> <<91, 93>>
      [] value = "json!({\"test\": 5})" ->
           <<123, 34, 116, 101, 115, 116, 34, 58, 53, 125>>

\* the JSON texts serde_json::from_str is given in this model: the compact
\* texts of the values above are values, the other texts it is given are not
JsonTexts == {Value_to_string(value) : value \in JsonValues}

serde_json_from_str(s) ==
    IF s \in JsonTexts
    THEN Ok(CHOOSE value \in JsonValues : Value_to_string(value) = s)
    ELSE Err("Syntax")

(***************************************************************************)
(* ErrorResponse (event 0x0002), the frame the server answers errors with. *)
(***************************************************************************)
ErrorResponse_new(error) ==
    [type |-> "ErrorResponse", event |-> 2, encoder |-> BitEncoder_new(Lsb0),
     error |-> error]

\* every failure inside is a panic!
ErrorResponse_encode(self) ==
    LET texted(a3) ==
            IF a3.res.tag # "Ok" THEN [self |-> self, res |-> Panic]
            ELSE [self |-> [self EXCEPT !.encoder = a3.self], res |-> Ok("unit")]
        padded(a2) ==
            IF a2.res.tag # "Ok" THEN [self |-> self, res |-> Panic]
            ELSE texted(add_bytes(a2.self, as_bytes(self.error.message)))
        coded(a1) ==
            IF a1.res.tag # "Ok" THEN [self |-> self, res |-> Panic]
            ELSE padded(add_data(a1.self, B(0), 8))
    IN  coded(add_data(self.encoder, B(self.error.code), 16))

(***************************************************************************)
(* Event encoders (trait EventEncoder<R>).  A "User" event stands for any  *)
(* implementation of the trait outside the library: its encode() either    *)
(* fails with its own error or leaves the given bits in its encoder.       *)
(***************************************************************************)
UserEvent(order, event, data, fails) ==
    [type |-> "User", event |-> event, encoder |-> BitEncoder_new(order),
     data |-> data, fails |-> fails]

UserEvent_encode(self) ==
    IF self.fails
    THEN [self |-> self, res |-> Err(Error(0, "user", "UserDefined"))]
    ELSE [self |-> [self EXCEPT !.encoder = add_bitvec(@, self.data).self],
          res |-> Ok("unit")]

\* client/versions/v1/c0x0000.rs: a String is held as its UTF-8 octets
Client_ComponentNeedsRequest_new(component_name) ==
    [type |-> "Client_ComponentNeedsRequest", event |-> 0,
     encoder |-> BitEncoder_new(Lsb0), component_name |-> component_name]

Client_ComponentNeedsRequest_encode(self) ==
    LET named(a) == [self |-> [self EXCEPT !.encoder = a.self],
                     res |-> IF a.res.tag # "Ok" THEN a.res ELSE Ok("unit")]
    IN  named(add_bytes(self.encoder, self.component_name))

\* one more step of an encode(): `?` returns the first error
Then(a, step(_)) == IF a.res.tag # "Ok" THEN a ELSE step(a.self)

\* i32::to_string, for every i32 but i32::MIN
RECURSIVE DecimalDigits(_)
DecimalDigits(n) ==
    IF n < 10 THEN <<48 + n>> ELSE Append(DecimalDigits(n \div 10), 48 + (n % 10))

i32_to_string(n) == IF n < 0 THEN <<45>> \o DecimalDigits(0 - n) ELSE DecimalDigits(n)

\* client/versions/v1/c0x0005.rs: request_id is held as its two 32-bit
\* halves, <<request_id >> 32, request_id & 0xffffffff>>
Client_InteractionRequest_new(request_id, function_name, parent_name, object_id, params, token) ==
    [type |-> "Client_InteractionRequest", event |-> 5,
     encoder |-> BitEncoder_new(Msb0), request_id |-> request_id,
     function_name |-> function_name, parent_name |-> parent_name,
     object_id |-> object_id, params |-> params, token |-> token]

Client_InteractionRequest_encode(self) ==
    LET optional(e, field, text) ==
            IF field = None THEN [self |-> e, res |-> Ok("self")]
            ELSE add_bytes(e, text)
        done(a) == [self |-> [self EXCEPT !.encoder = a.self],
                    res |-> IF a.res.tag # "Ok" THEN a.res ELSE Ok("unit")]
    IN  done(
         Then(Then(Then(Then(Then(Then(Then(Then(Then(Then(
          add_data(self.encoder, self.request_id[1], 32),
          LAMBDA e : add_data(e, self.request_id[2], 32)),
          LAMBDA e : add_bytes(e, self.function_name)),
          LAMBDA e : add_data(e, B(0), 8)),
          LAMBDA e : add_bytes(e, self.parent_name)),
          LAMBDA e : add_data(e, B(0), 8)),
          LAMBDA e : optional(e, self.token,
                              IF self.token = None THEN <<>> ELSE self.token.val)),
          LAMBDA e : add_data(e, B(0), 8)),
          LAMBDA e : optional(e, self.object_id,
                              IF self.object_id = None THEN <<>>
                              ELSE i32_to_string(self.object_id.val))),
          LAMBDA e : add_data(e, B(0), 8)),
          LAMBDA e : optional(e, self.params,
                              IF self.params = None THEN <<>>
                              ELSE Value_to_string(self.params.val))))

\* Path::new(path).file_name(), for the paths the listeners of this model
\* return
file_name(path) ==
    CASE path = "index.html" -> Some("index.html")
      [] path = "dir/main.fyve" -> Some("main.fyve")
      [] path = "main.fyve" -> Some("main.fyve")
      [] path = "src/tests/res/test.html" -> Some("test.html")
      [] path = "a" -> Some("a")
      [] path = ".." -> None

(***************************************************************************)
(* The fyve alphabet.  server/bits/utils.rs gives the bits of a character, *)
(* client/bits/utils.rs the character of a value; characters are named by  *)
(* their code.  The content of a file is a sequence of <<character, times>> *)
(* pieces, each standing for that many copies of the character.            *)
(***************************************************************************)
Server_CHARS ==
    (32 :> <<0, 0, 0, 0, 1>>) @@ (116 :> <<0, 0, 0, 1, 0>>) @@ (97 :> <<0, 0, 0, 1, 1>>)
    @@ (101 :> <<0, 0, 1, 0, 0>>) @@ (105 :> <<0, 0, 1, 0, 1>>) @@ (110 :> <<0, 0, 1, 1, 0>>)
    @@ (111 :> <<0, 0, 1, 1, 1>>) @@ (114 :> <<0, 1, 0, 0, 0>>) @@ (115 :> <<0, 1, 0, 0, 1>>)
    @@ (100 :> <<0, 1, 0, 1, 0>>) @@ (108 :> <<0, 1, 0, 1, 1>>) @@ (45 :> <<0, 1, 1, 0, 0>>)
    @@ (34 :> <<0, 1, 1, 0, 1>>) @@ (99 :> <<0, 1, 1, 1, 0>>) @@ (112 :> <<0, 1, 1, 1, 1>>)
    @@ (102 :> <<1, 0, 0, 0, 0>>) @@ (62 :> <<1, 0, 0, 0, 1>>) @@ (61 :> <<1, 0, 0, 1, 0>>)
    @@ (46 :> <<1, 0, 0, 1, 1>>) @@ (118 :> <<1, 0, 1, 0, 0>>) @@ (60 :> <<1, 0, 1, 0, 1>>)
    @@ (117 :> <<1, 0, 1, 1, 0>>) @@ (109 :> <<1, 0, 1, 1, 1>>) @@ (59 :> <<1, 1, 0, 0, 0>>)
    @@ (103 :> <<1, 1, 0, 0, 1>>) @@ (58 :> <<1, 1, 0, 1, 0>>) @@ (47 :> <<1, 1, 0, 1, 1>>)
    @@ (104 :> <<1, 1, 1, 0, 0>>) @@ (121 :> <<1, 1, 1, 0, 1>>) @@ (120 :> <<1, 1, 1, 1, 0>>)
    @@
    (98 :> <<1, 1, 1, 1, 1, 0, 0, 0, 0, 1>>) @@ (107 :> <<1, 1, 1, 1, 1, 0, 0, 0, 1, 0>>)
    @@ (41 :> <<1, 1, 1, 1, 1, 0, 0, 0, 1, 1>>) @@ (40 :> <<1, 1, 1, 1, 1, 0, 0, 1, 0, 0>>)
    @@ (119 :> <<1, 1, 1, 1, 1, 0, 0, 1, 0, 1>>) @@ (69 :> <<1, 1, 1, 1, 1, 0, 0, 1, 1, 0>>)
    @@ (35 :> <<1, 1, 1, 1, 1, 0, 0, 1, 1, 1>>) @@ (125 :> <<1, 1, 1, 1, 1, 0, 1, 0, 0, 0>>)
    @@ (123 :> <<1, 1, 1, 1, 1, 0, 1, 0, 0, 1>>) @@ (48 :> <<1, 1, 1, 1, 1, 0, 1, 0, 1, 0>>)
    @@ (78 :> <<1, 1, 1, 1, 1, 0, 1, 0, 1, 1>>) @@ (65 :> <<1, 1, 1, 1, 1, 0, 1, 1, 0, 0>>)
    @@ (50 :> <<1, 1, 1, 1, 1, 0, 1, 1, 0, 1>>) @@ (82 :> <<1, 1, 1, 1, 1, 0, 1, 1, 1, 0>>)
    @@ (49 :> <<1, 1, 1, 1, 1, 0, 1, 1, 1, 1>>) @@ (84 :> <<1, 1, 1, 1, 1, 1, 0, 0, 0, 0>>)
    @@ (68 :> <<1, 1, 1, 1, 1, 1, 0, 0, 0, 1>>) @@ (79 :> <<1, 1, 1, 1, 1, 1, 0, 0, 1, 0>>)
    @@ (73 :> <<1, 1, 1, 1, 1, 1, 0, 0, 1, 1>>) @@ (83 :> <<1, 1, 1, 1, 1, 1, 0, 1, 0, 0>>)
    @@ (95 :> <<1, 1, 1, 1, 1, 1, 0, 1, 0, 1>>) @@ (80 :> <<1, 1, 1, 1, 1, 1, 0, 1, 1, 0>>)
    @@ (76 :> <<1, 1, 1, 1, 1, 1, 0, 1, 1, 1>>) @@ (54 :> <<1, 1, 1, 1, 1, 1, 1, 0, 0, 0>>)
    @@ (52 :> <<1, 1, 1, 1, 1, 1, 1, 0, 0, 1>>) @@ (44 :> <<1, 1, 1, 1, 1, 1, 1, 0, 1, 0>>)
    @@ (122 :> <<1, 1, 1, 1, 1, 1, 1, 0, 1, 1>>) @@ (77 :> <<1, 1, 1, 1, 1, 1, 1, 1, 0, 0>>)
    @@ (67 :> <<1, 1, 1, 1, 1, 1, 1, 1, 0, 1>>) @@ (66 :> <<1, 1, 1, 1, 1, 1, 1, 1, 1, 0>>)
    @@
    (71 :> <<1, 1, 1, 1, 1, 1, 1, 1, 1, 1, 0, 0, 0, 0, 1>>)
    @@ (37 :> <<1, 1, 1, 1, 1, 1, 1, 1, 1, 1, 0, 0, 0, 1, 0>>)
    @@ (106 :> <<1, 1, 1, 1, 1, 1, 1, 1, 1, 1, 0, 0, 0, 1, 1>>)
    @@ (51 :> <<1, 1, 1, 1, 1, 1, 1, 1, 1, 1, 0, 0, 1, 0, 0>>)
    @@ (85 :> <<1, 1, 1, 1, 1, 1, 1, 1, 1, 1, 0, 0, 1, 0, 1>>)
    @@ (56 :> <<1, 1, 1, 1, 1, 1, 1, 1, 1, 1, 0, 0, 1, 1, 0>>)
    @@ (42 :> <<1, 1, 1, 1, 1, 1, 1, 1, 1, 1, 0, 0, 1, 1, 1>>)
    @@ (53 :> <<1, 1, 1, 1, 1, 1, 1, 1, 1, 1, 0, 1, 0, 0, 0>>)
    @@ (57 :> <<1, 1, 1, 1, 1, 1, 1, 1, 1, 1, 0, 1, 0, 0, 1>>)
    @@ (43 :> <<1, 1, 1, 1, 1, 1, 1, 1, 1, 1, 0, 1, 0, 1, 0>>)
    @@ (70 :> <<1, 1, 1, 1, 1, 1, 1, 1, 1, 1, 0, 1, 0, 1, 1>>)
    @@ (124 :> <<1, 1, 1, 1, 1, 1, 1, 1, 1, 1, 0, 1, 1, 0, 0>>)
    @@ (87 :> <<1, 1, 1, 1, 1, 1, 1, 1, 1, 1, 0, 1, 1, 0, 1>>)
    @@ (86 :> <<1, 1, 1, 1, 1, 1, 1, 1, 1, 1, 0, 1, 1, 1, 0>>)
    @@ (64 :> <<1, 1, 1, 1, 1, 1, 1, 1, 1, 1, 0, 1, 1, 1, 1>>)
    @@ (113 :> <<1, 1, 1, 1, 1, 1, 1, 1, 1, 1, 1, 0, 0, 0, 0>>)
    @@ (39 :> <<1, 1, 1, 1, 1, 1, 1, 1, 1, 1, 1, 0, 0, 0, 1>>)
    @@ (81 :> <<1, 1, 1, 1, 1, 1, 1, 1, 1, 1, 1, 0, 0, 1, 0>>)
    @@ (72 :> <<1, 1, 1, 1, 1, 1, 1, 1, 1, 1, 1, 0, 0, 1, 1>>)
    @@ (33 :> <<1, 1, 1, 1, 1, 1, 1, 1, 1, 1, 1, 0, 1, 0, 0>>)
    @@ (93 :> <<1, 1, 1, 1, 1, 1, 1, 1, 1, 1, 1, 0, 1, 0, 1>>)
    @@ (91 :> <<1, 1, 1, 1, 1, 1, 1, 1, 1, 1, 1, 0, 1, 1, 0>>)
    @@ (55 :> <<1, 1, 1, 1, 1, 1, 1, 1, 1, 1, 1, 0, 1, 1, 1>>)
    @@ (90 :> <<1, 1, 1, 1, 1, 1, 1, 1, 1, 1, 1, 1, 0, 0, 0>>)
    @@ (89 :> <<1, 1, 1, 1, 1, 1, 1, 1, 1, 1, 1, 1, 0, 0, 1>>)
    @@ (88 :> <<1, 1, 1, 1, 1, 1, 1, 1, 1, 1, 1, 1, 0, 1, 0>>)
    @@ (74 :> <<1, 1, 1, 1, 1, 1, 1, 1, 1, 1, 1, 1, 0, 1, 1>>)
    @@ (94 :> <<1, 1, 1, 1, 1, 1, 1, 1, 1, 1, 1, 1, 1, 0, 0>>)
    @@ (75 :> <<1, 1, 1, 1, 1, 1, 1, 1, 1, 1, 1, 1, 1, 0, 1>>)
    @@ (63 :> <<1, 1, 1, 1, 1, 1, 1, 1, 1, 1, 1, 1, 1, 1, 0>>)
    @@
    (36 :> <<1, 1, 1, 1, 1, 1, 1, 1, 1, 1, 1, 1, 1, 1, 1, 0, 0, 0, 0, 1>>)
    @@ (92 :> <<1, 1, 1, 1, 1, 1, 1, 1, 1, 1, 1, 1, 1, 1, 1, 0, 0, 0, 1, 0>>)
    @@ (126 :> <<1, 1, 1, 1, 1, 1, 1, 1, 1, 1, 1, 1, 1, 1, 1, 0, 0, 0, 1, 1>>)
    @@ (96 :> <<1, 1, 1, 1, 1, 1, 1, 1, 1, 1, 1, 1, 1, 1, 1, 0, 0, 1, 0, 0>>)
    @@ (38 :> <<1, 1, 1, 1, 1, 1, 1, 1, 1, 1, 1, 1, 1, 1, 1, 0, 0, 1, 0, 1>>)

Client_CHARS ==
    (1 :> 32) @@ (2 :> 116) @@ (3 :> 97) @@ (4 :> 101) @@ (5 :> 105) @@ (6 :> 110)
    @@ (7 :> 111) @@ (8 :> 114) @@ (9 :> 115) @@ (10 :> 100) @@ (11 :> 108) @@ (12 :> 45)
    @@ (13 :> 34) @@ (14 :> 99) @@ (15 :> 112) @@ (16 :> 102) @@ (17 :> 62) @@ (18 :> 61)
    @@ (19 :> 46) @@ (20 :> 118) @@ (21 :> 60) @@ (22 :> 117) @@ (23 :> 109) @@ (24 :> 59)
    @@ (25 :> 103) @@ (26 :> 58) @@ (27 :> 47) @@ (28 :> 104) @@ (29 :> 121) @@ (30 :> 120)
    @@ (993 :> 98) @@ (994 :> 107) @@ (995 :> 41) @@ (996 :> 40) @@ (997 :> 119) @@ (998 :> 69)
    @@ (999 :> 35) @@ (1000 :> 125) @@ (1001 :> 123) @@ (1002 :> 48) @@ (1003 :> 78) @@ (1004 :> 65)
    @@ (1005 :> 50) @@ (1006 :> 82) @@ (1007 :> 49) @@ (1008 :> 84) @@ (1009 :> 68) @@ (1010 :> 79)
    @@ (1011 :> 73) @@ (1012 :> 83) @@ (1013 :> 95) @@ (1014 :> 80) @@ (1015 :> 76) @@ (1016 :> 54)
    @@ (1017 :> 52) @@ (1018 :> 44) @@ (1019 :> 122) @@ (1020 :> 77) @@ (1021 :> 67) @@ (1022 :> 66)
    @@ (32737 :> 71) @@ (32738 :> 37) @@ (32739 :> 106) @@ (32740 :> 51) @@ (32741 :> 85) @@ (32742 :> 56)
    @@ (32743 :> 42) @@ (32744 :> 53) @@ (32745 :> 57) @@ (32746 :> 43) @@ (32747 :> 70) @@ (32748 :> 124)
    @@ (32749 :> 87) @@ (32750 :> 86) @@ (32751 :> 64) @@ (32752 :> 113) @@ (32753 :> 39) @@ (32754 :> 81)
    @@ (32755 :> 72) @@ (32756 :> 33) @@ (32757 :> 93) @@ (32758 :> 91) @@ (32759 :> 55) @@ (32760 :> 90)
    @@ (32761 :> 89) @@ (32762 :> 88) @@ (32763 :> 74) @@ (32764 :> 94) @@ (32765 :> 75) @@ (32766 :> 63)
    @@ (1048545 :> 36) @@ (1048546 :> 92) @@ (1048547 :> 126) @@ (1048548 :> 96) @@ (1048549 :> 38)

\* the bits of times copies of the bits of one character
PieceBits(code, times) ==
    RunCanon([p \in 1..(times * Len(code)) |-> <<code[((p - 1) % Len(code)) + 1], B(p)>>])

\* for byte in content.as_bytes(): add_bitvec(CHARS.get(&(byte as char)).unwrap())
RECURSIVE ContentBits(_)
ContentBits(content) ==
    IF content = <<>> THEN <<>>
    ELSE RunCat(PieceBits(Server_CHARS[content[1][1]], content[1][2]),
                ContentBits(Tail(content)))

\* the characters of a content, one by one
RECURSIVE Characters(_)
Characters(content) ==
    IF content = <<>> THEN <<>>
    ELSE [i \in 1..content[1][2] |-> content[1][1]] \o Characters(Tail(content))

\* server/versions/v1/c0x0004.rs
FullFyveResponse_encode(self) ==
    LET out(a, res) == [self |-> [self EXCEPT !.encoder = a.self], res |-> res]
        filled(a) ==
            IF a.res.tag # "Ok" THEN out(a, a.res)
            ELSE IF self.file.tag # "Ok"
            THEN out(a, Err(IF self.file.err = "open"
                            THEN Error(404, "File not found: " \o self.path, "NotFound")
                            ELSE Error(500, "File read error: " \o self.path,
                                       "InternalServerError")))
            ELSE IF \E i \in DOMAIN self.file.val :
                        self.file.val[i][1] \notin DOMAIN Server_CHARS
            THEN out(a, Panic)
            ELSE out(add_bitvec(a.self, ContentBits(self.file.val)), Ok("unit"))
    IN  IF file_name(self.path) = None
        THEN [self |-> self,
              res |-> Err(Error(400, "Invalid file name: " \o self.path, "BadRequest"))]
        ELSE filled(Then(add_bytes(self.encoder, as_bytes(file_name(self.path).val)),
                         LAMBDA e : add_data(e, B(0), 8)))

(***************************************************************************)
(* server/versions/v1/c0x0001.rs.  A document is what Html::parse_fragment *)
(* gives for the minified file: nodes [kind |-> "Element", name, attrs,    *)
(* children], [kind |-> "Text", text] and [kind |-> "Comment"]; attrs is   *)
(* the sequence of <<name, value>> in the order element.attrs() yields     *)
(* them.  Names and texts are sequences of ASCII codes.                    *)
(***************************************************************************)
\* text.trim().is_empty()
IsBlank(text) == \A i \in DOMAIN text : text[i] \in {9, 10, 11, 12, 13, 32}

Fragment == [kind |-> "Fragment"]

\* parent is node.parent(): None, or the node above
append_text(encoder, parent, text) ==
    IF IsBlank(text) THEN [self |-> encoder, res |-> Ok("unit")]
    ELSE IF parent = None THEN [self |-> encoder, res |-> Ok("unit")]
    ELSE IF parent.val.kind # "Element" \/ parent.val.name = <<112, 114, 101>>
    THEN [self |-> encoder, res |-> Ok("unit")]
    ELSE Then(Then(add_data(encoder, B(0), 10),
                   LAMBDA e : add_data(e, B(Len(text)), 15)),
              LAMBDA e : add_bytes(e, text))

append_fyve_text(encoder, text) ==
    IF IsBlank(text)
    THEN [self |-> encoder, res |-> Err(Error(400, "Empty text", "BadRequest"))]
    ELSE IF \E i \in DOMAIN text : text[i] \notin DOMAIN Server_CHARS
    THEN [self |-> encoder, res |-> Panic]
    ELSE add_bitvec(encoder, ContentBits([i \in DOMAIN text |-> <<text[i], 1>>]))

\* for (name, value) in element.attrs(), from attribute i on; above is the
\* parent of the element
RECURSIVE process_attrs(_, _, _, _)
process_attrs(encoder, attrs, i, above) ==
    IF i > Len(attrs) THEN [self |-> encoder, res |-> Ok("unit")]
    ELSE Then(Then(append_fyve_text(encoder, attrs[i][1]),
                   LAMBDA e : append_text(e, above, attrs[i][2])),
              LAMBDA e : process_attrs(e, attrs, i + 1, above))

RECURSIVE process_node(_, _, _)
RECURSIVE process_children(_, _, _, _)
\* for child in node.children(), from child i on
process_children(encoder, children, i, parent) ==
    IF i > Len(children) THEN [self |-> encoder, res |-> Ok("unit")]
    ELSE Then(process_node(encoder, children[i], parent),
              LAMBDA e : process_children(e, children, i + 1, parent))

process_node(encoder, node, parent) ==
    CASE node.kind = "Element" ->
           Then(Then(Then(Then(Then(add_data(encoder, B(16), 10),
                                    LAMBDA e : append_fyve_text(e, node.name)),
                               LAMBDA e : IF Len(node.attrs) > 0
                                          THEN Then(add_data(e, B(17), 10),
                                                    LAMBDA f : process_attrs(f, node.attrs,
                                                                             1, parent))
                                          ELSE [self |-> e, res |-> Ok("unit")]),
                          LAMBDA e : add_data(e, B(24), 10)),
                     LAMBDA e : process_children(e, node.children, 1, Some(node))),
                LAMBDA e : add_data(e, B(25), 10))
      [] node.kind = "Text" -> append_text(encoder, parent, node.text)
      [] OTHER -> [self |-> encoder, res |-> Ok("unit")]

\* file is what get_minified_html_file and Html::parse_fragment give when
\* encode() is called: Ok(the children of the root) or the step that failed
HtmlFileResponse_encode(self) ==
    LET out(a) == [self |-> [self EXCEPT !.encoder = a.self], res |-> a.res]
        failed(e, code, message, kind) ==
            [self |-> e, res |-> Err(Error(code, message \o self.path, kind))]
        parsed(e) ==
            CASE self.file.tag = "Ok" ->
                   process_children(e, self.file.val, 1, Some(Fragment))
              [] self.file.err = "open" ->
                   failed(e, 404, "File not found: ", "NotFound")
              [] self.file.err = "read" ->
                   failed(e, 500, "File read error: ", "InternalServerError")
              [] OTHER -> failed(e, 500, "HTML minify error: ", "InternalServerError")
    IN  IF file_name(self.path) = None
        THEN [self |-> self,
              res |-> Err(Error(400, "Invalid file name: " \o self.path, "BadRequest"))]
        ELSE out(Then(Then(add_bytes(self.encoder, as_bytes(file_name(self.path).val)),
                           LAMBDA e : add_data(e, B(0), 8)),
                      parsed))

\* server/versions/v1/c0x0006.rs: request_id is held as its two 32-bit halves
InteractionResponse_new(request_id, response) ==
    [type |-> "InteractionResponse", event |-> 6, encoder |-> BitEncoder_new(Lsb0),
     request_id |-> request_id, response |-> response]

InteractionResponse_encode(self) ==
    LET done(a) == [self |-> [self EXCEPT !.encoder = a.self],
                    res |-> IF a.res.tag # "Ok" THEN a.res ELSE Ok("unit")]
    IN  done(Then(Then(add_data(self.encoder, self.request_id[1], 32),
                       LAMBDA e : add_data(e, self.request_id[2], 32)),
                  LAMBDA e : IF self.response = None THEN [self |-> e, res |-> Ok("self")]
                             ELSE add_bytes(e, Value_to_string(self.response.val))))

\* frame.encode() on a Box<dyn EventEncoder<R>>, for the implementations a
\* caller hands over without naming them
EventEncoder_encode(self) ==
    CASE self.type = "User" -> UserEvent_encode(self)
      [] self.type = "ErrorResponse" -> ErrorResponse_encode(self)

EventEncoder_get_event(self) == self.event

(***************************************************************************)
(* FrameEncoder<R>                                                         *)
(***************************************************************************)
FrameEncoder_new(order, version) ==
    LET v == Version_from_u8(version)
    IN  IF v.tag = "Err" THEN v
        ELSE Ok([tag |-> "FrameEncoder", encoder |-> BitEncoder_new(order),
                 version |-> v.val])

\* while self.encoder.frame.len() % 8 != 0 { self.encoder.add_data(0, 1)?; }
\* PadNext: what the loop does with the result of one add_data
RECURSIVE PadToByte(_), PadNext(_)
PadToByte(encoder) ==
    IF BMod8(RunLen(encoder.frame)) = 0 THEN [self |-> encoder, res |-> Ok("unit")]
    ELSE PadNext(add_data(encoder, B(0), 1))

PadNext(r) == IF r.res.tag = "Err" THEN r ELSE PadToByte(r.self)

\* frame is the event encoder and encoded_frame what frame.encode() does (the
\* event encoder as the call leaves it and the value returned); the result
\* carries the FrameEncoder as the call leaves it (self.encoder is never
\* cleared) and the value returned.  The steps
\* of the function, last first: each takes the results of the steps before it
FrameEncoder_encode_event(self, frame, encoded_frame) ==
    LET with(encoder) == [self EXCEPT !.encoder = encoder]
        padded(a5) ==
            [self |-> with(a5.self),
             res |-> IF a5.res.tag # "Ok" THEN a5.res ELSE Ok(BitEncoder_encode(a5.self))]
        sized(ev, a3) ==
            IF a3.res.tag # "Ok" THEN [self |-> with(a3.self), res |-> a3.res]
            ELSE padded(PadToByte(append_data_from(a3.self, ev.self.encoder)))
        identified(ev, a2) ==
            IF a2.res.tag # "Ok" THEN [self |-> with(a2.self), res |-> a2.res]
            ELSE sized(ev, add_data(a2.self, AsU32(RunLen(ev.self.encoder.frame)), 32))
        encoded(a1, ev) ==
            IF ev.res.tag # "Ok" THEN [self |-> with(a1.self), res |-> ev.res]
            ELSE IF BLt(Pow2_32, RunLen(ev.self.encoder.frame))
            THEN [self |-> with(a1.self),
                  res |-> Err(SizeErr("Maximum of 2^32 bits allowed"))]
            ELSE IF BLt(RunLen(ev.self.encoder.frame), B(8))
            THEN [self |-> with(a1.self),
                  res |-> Err(Error(9, "Minimum of 8 bits allowed",
                                    "SizeConstraintViolation"))]
            ELSE identified(ev, add_data(a1.self, B(EventEncoder_get_event(frame)), 16))
        versioned(a1) ==
            IF a1.res.tag # "Ok" THEN [self |-> self, res |-> a1.res]
            ELSE encoded(a1, encoded_frame)
    IN  versioned(add_data(self.encoder, B(Version_to_u8(self.version)), 8))

FrameEncoder_encode(self, frame) ==
    FrameEncoder_encode_event(self, frame, EventEncoder_encode(frame))

(***************************************************************************)
(* Frame<R> and FrameDecoder<R>                                            *)
(***************************************************************************)
Frame(v, ds, e, d) == [version |-> v, data_size |-> ds, event |-> e, data |-> d]

FrameDecoder_new(decoder) == [decoder |-> decoder]

\* the header is 8 + 16 + 32 bits; data_size is narrowed to a u16
FrameDecoder_decode(self) ==
    LET sliced(r1, r2, r3, slice) ==
            [self |-> [decoder |-> r3.self],
             res |-> IF slice.tag # "Ok" THEN slice
                     ELSE Ok(Frame(AsU8(r1.res.val), AsU16(r3.res.val),
                                   AsU16(r2.res.val), slice.val))]
        sized(r1, r2, r3) ==
            IF r3.res.tag # "Ok" THEN [self |-> [decoder |-> r2.self], res |-> r3.res]
            ELSE sliced(r1, r2, r3,
                        read_vec(r3.self, B(56), BAdd(B(56), B(AsU16(r3.res.val)))))
        identified(r1, r2) ==
            IF r2.res.tag # "Ok" THEN [self |-> [decoder |-> r1.self], res |-> r2.res]
            ELSE sized(r1, r2, read_data(r2.self, 32))
        versioned(r1) ==
            IF r1.res.tag # "Ok" THEN [self |-> self, res |-> r1.res]
            ELSE identified(r1, read_data(r1.self, 16))
    IN  versioned(read_data(self.decoder, 8))

(***************************************************************************)
(* The registry of factories and listeners, and the mutex around it.       *)
(* A factory is named by the request type it builds; a listener is         *)
(* modelled by the arguments it returns.                                   *)
(***************************************************************************)
EventRegistry_new == [events |-> <<>>, listeners |-> <<>>]

get_event(self, event_id) ==
    IF event_id \in DOMAIN self.events THEN Some(self.events[event_id]) ELSE None

get_listener(self, event_id) ==
    IF event_id \in DOMAIN self.listeners THEN Some(self.listeners[event_id])
    ELSE None

add_event_clearing(self, event_id, event_fn) ==
    [self EXCEPT !.events = (event_id :> event_fn)]

add_event(self, event_id, event_fn) ==
    [self EXCEPT !.events = (event_id :> event_fn) @@ @]

add_listener(self, event_id, listener_fn) ==
    [self EXCEPT !.listeners = (event_id :> listener_fn) @@ @]

\* EVENT_REGISTRY_MSB after init() in a build with the server features
registry_init ==
    add_event(add_event(EventRegistry_new, <<1, 0>>, "ComponentNeedsRequest"),
              <<1, 5>>, "InteractionRequest")

\* EVENT_REGISTRY_MSB.lock().unwrap() by a thread.  mutex is "free", "locked"
\* (its owner never releases it) or "poisoned" (its owner panicked).  holds:
\* the thread already owns the guard; std::sync::Mutex then either deadlocks
\* or panics (how), it never returns.
MutexLock(mutex, holds, how) ==
    IF holds THEN how
    ELSE CASE mutex = "free" -> "acquired"
           [] mutex = "locked" -> "blocked"
           [] mutex = "poisoned" -> "panic"

(***************************************************************************)
(* Arg, the values a listener returns.                                     *)
(***************************************************************************)
Arg(kind, value) == [kind |-> kind, value |-> value]

InternalErr(message) == Error(500, message, "InternalServerError")

to_option_text(self) ==
    IF self.kind = "OptionText" THEN Ok(self.value)
    ELSE Err(InternalErr("Expected Option<String>"))

to_vec_text(self) ==
    IF self.kind = "VecText" THEN Ok(self.value)
    ELSE Err(InternalErr("Expected Vec<String>"))

to_option_value(self) ==
    IF self.kind = "OptionValue" THEN Ok(self.value)
    ELSE Err(InternalErr("Expected Option<Value>"))

\* path.ends_with(".html"), for the same paths
ends_with_html(path) == path = "index.html"

(***************************************************************************)
(* The responses of the server, as get_responses builds them.              *)
(***************************************************************************)
ComponentNeedsResponse_new(component_name, title, files) ==
    [type |-> "ComponentNeedsResponse", event |-> 3, encoder |-> BitEncoder_new(Lsb0),
     component_name |-> component_name, title |-> title, files |-> files]

HtmlFileResponse_new(path) ==
    [type |-> "HtmlFileResponse", event |-> 1, encoder |-> BitEncoder_new(Lsb0),
     path |-> path, file |-> Err("open")]

\* file is what File::open(path) and read_to_string will find when encode()
\* is called: Ok(content) or the step that failed
FullFyveResponse_new(path) ==
    [type |-> "FullFyveResponse", event |-> 4, encoder |-> BitEncoder_new(Lsb0),
     path |-> path, file |-> Err("open")]

(***************************************************************************)
(* Request decoders (trait EventDecoder<Msb0>).                            *)
(***************************************************************************)
\* read i (from 1) of a run of one-byte reads starting at the decoder's position
ReadAt(decoder, i) ==
    read_data([decoder EXCEPT !.position = BAdd(@, B(8 * (i - 1)))], 8)

\* how many of count one-byte reads succeed before read_data fails
ReadsDone(decoder, count) ==
    IF count = 0 \/ ReadAt(decoder, count).res.tag = "Ok" THEN count
    ELSE CHOOSE k \in 0..(count - 1) : /\ k = 0 \/ ReadAt(decoder, k).res.tag = "Ok"
                                      /\ ReadAt(decoder, k + 1).res.tag # "Ok"

ReadBytesFirst(decoder, count, done) ==
    IF done = count
    THEN [self |-> [decoder EXCEPT !.position = BAdd(@, B(8 * count))],
          res |-> Ok(<<>> \o [i \in 1..count |-> AsU8(ReadAt(decoder, i).res.val)])]
    ELSE [self |-> [decoder EXCEPT !.position = BAdd(@, B(8 * done))],
          res |-> ReadAt(decoder, done + 1).res]

\* count times: bytes.push(self.decoder.read_data(8)? as u8)
ReadBytes(decoder, count) ==
    ReadBytesFirst(decoder, count, ReadsDone(decoder, count))

ComponentNeedsRequest_new(decoder) ==
    [type |-> "ComponentNeedsRequest", decoder |-> decoder,
     requested_component_name |-> <<>>]

ComponentNeedsRequest_decode(self, frame) ==
    LET named(r) ==
            IF r.res.tag # "Ok"
            THEN [self |-> [self EXCEPT !.decoder = r.self], res |-> r.res]
            ELSE IF ~IsUtf8(r.res.val)
            THEN [self |-> [self EXCEPT !.decoder = r.self], res |-> Panic]
            ELSE [self |-> [self EXCEPT !.decoder = r.self,
                                        !.requested_component_name = r.res.val],
                  res |-> Ok("unit")]
    IN  named(ReadBytes(self.decoder, frame.data_size \div 8))

\* the part after the lock: listener is what get_listener((1, 0x0000)) gave
ComponentNeedsRequest_responses(self, listener) ==
    IF listener = None
    THEN Err(Error(404, "Listener not found for 0x0000", "NotFound"))
    ELSE LET args == listener.val
             title == to_option_text(args[1])
             files_path == to_vec_text(args[2])
             paths == files_path.val
         IN  IF Len(args) < 1 THEN Panic
             ELSE IF title.tag # "Ok" THEN title
             ELSE IF Len(args) < 2 THEN Panic
             ELSE IF files_path.tag # "Ok" THEN files_path
             ELSE IF \E i \in DOMAIN paths : file_name(paths[i]) = None
             THEN Err(Error(400, "Invalid file name: ..", "BadRequest"))
             ELSE Ok(<<ComponentNeedsResponse_new(
                          self.requested_component_name, title.val,
                          [i \in DOMAIN paths |-> file_name(paths[i]).val])>>
                     \o [i \in DOMAIN paths |->
                            IF ends_with_html(paths[i])
                            THEN HtmlFileResponse_new(paths[i])
                            ELSE FullFyveResponse_new(paths[i])])

InteractionRequest_new(decoder) ==
    [type |-> "InteractionRequest", decoder |-> decoder, request_id |-> <<B(0), B(0)>>,
     parent_name |-> <<>>, function_name |-> <<>>, object_id |-> None,
     params |-> None, token |-> None]

\* request_id is kept as its two 32-bit halves.  The steps of the function,
\* last first: each takes the results of the steps before it
InteractionRequest_decode(self) ==
    LET at(d) == [self EXCEPT !.decoder = d]
        named(r1, r2, rb, parts) ==
            [at(rb.self) EXCEPT !.request_id = <<r1.res.val, r2.res.val>>,
                                !.function_name = parts[1],
                                !.parent_name = parts[2]]
        filled(r1, r2, rb, parts, object_id, params) ==
            [self |-> [named(r1, r2, rb, parts) EXCEPT
                           !.token = IF parts[3] = <<>> THEN None ELSE Some(parts[3]),
                           !.object_id = IF parts[4] = <<>> THEN None
                                         ELSE Some(object_id.val),
                           !.params = IF parts[5] = <<>> THEN None
                                      ELSE Some(params.val)],
             res |-> Ok("unit")]
        parsed(r1, r2, rb, parts, object_id) ==
            IF parts[4] # <<>> /\ object_id.tag # "Ok"
            THEN [self |-> named(r1, r2, rb, parts), res |-> Panic]
            ELSE IF Len(parts) < 5 THEN [self |-> named(r1, r2, rb, parts), res |-> Panic]
            ELSE IF parts[5] # <<>> /\ serde_json_from_str(parts[5]).tag # "Ok"
            THEN [self |-> named(r1, r2, rb, parts), res |-> Panic]
            ELSE filled(r1, r2, rb, parts, object_id, serde_json_from_str(parts[5]))
        split(r1, r2, rb, parts) ==
            IF Len(parts) < 2 THEN [self |-> at(rb.self), res |-> Panic]
            ELSE IF parts[1] = <<>>
            THEN [self |-> named(r1, r2, rb, parts),
                  res |-> Err(Error(400, "Function name is empty", "BadRequest"))]
            ELSE IF parts[2] = <<>>
            THEN [self |-> named(r1, r2, rb, parts),
                  res |-> Err(Error(400, "Table name is empty", "BadRequest"))]
            ELSE IF Len(parts) < 4 THEN [self |-> named(r1, r2, rb, parts), res |-> Panic]
            ELSE parsed(r1, r2, rb, parts, parse_i32(parts[4]))
        texted(r1, r2, rb) ==
            IF rb.res.tag # "Ok" THEN [self |-> at(rb.self), res |-> rb.res]
            ELSE split(r1, r2, rb, Split(rb.res.val, 0))
        second(r1, r2) ==
            IF r2.res.tag # "Ok" THEN [self |-> at(r2.self), res |-> r2.res]
            ELSE texted(r1, r2,
                        ReadBytes(r2.self,
                                  BDiv8(BSub(RunLen(self.decoder.frame), B(64)))))
        first(r1) ==
            IF r1.res.tag # "Ok" THEN [self |-> at(r1.self), res |-> r1.res]
            ELSE second(r1, read_data(r1.self, 32))
    IN  first(read_data(self.decoder, 32))

\* the part after the lock: listener is what get_listener((1, 0x0005)) gave
InteractionRequest_responses(self, listener) ==
    IF listener = None
    THEN Err(Error(404, "Listener not found for 0x0005", "NotFound"))
    ELSE LET args == listener.val
             response == to_option_value(args[1])
         IN  IF Len(args) < 1 THEN Panic
             ELSE IF response.tag # "Ok" THEN response
             ELSE Ok(<<InteractionResponse_new(self.request_id, response.val)>>)

\* a factory of the registry applied to a decoder
factory(event_fn, decoder) ==
    CASE event_fn = "ComponentNeedsRequest" -> ComponentNeedsRequest_new(decoder)
      [] event_fn = "InteractionRequest" -> InteractionRequest_new(decoder)

EventDecoder_decode(self, frame) ==
    CASE self.type = "ComponentNeedsRequest" -> ComponentNeedsRequest_decode(self, frame)
      [] self.type = "InteractionRequest" -> InteractionRequest_decode(self)

\* get_responses: it locks EVENT_REGISTRY_MSB, looks its listener up and
\* calls it.  The result carries how the lock went and the number of
\* listener calls made.
EventDecoder_get_responses(self, registry, mutex, holds, how) ==
    LET locked == MutexLock(mutex, holds, how)
        key == IF self.type = "ComponentNeedsRequest" THEN <<1, 0>> ELSE <<1, 5>>
        listener == get_listener(registry, key)
    IN  IF locked # "acquired"
        THEN [res |-> [tag |-> "NoReturn", how |-> locked], listener_calls |-> 0]
        ELSE [res |-> IF self.type = "ComponentNeedsRequest"
                      THEN ComponentNeedsRequest_responses(self, listener)
                      ELSE InteractionRequest_responses(self, listener),
              listener_calls |-> IF listener = None THEN 0 ELSE 1]

(***************************************************************************)
(* The server's dispatch of one incoming buffer.                           *)
(***************************************************************************)
\* prelude.rs: both steps are unwrapped
answer_error(version, error) ==
    LET sent(bytes) == IF bytes.tag # "Ok" THEN Panic ELSE bytes
        made(encoder) ==
            IF encoder.tag # "Ok" THEN Panic
            ELSE sent(FrameEncoder_encode(encoder.val, ErrorResponse_new(error)).res)
    IN  made(FrameEncoder_new(Lsb0, version))

\* how the handling of one buffer ends ("continue": the handler goes on to
\* the next read; "return": it returns after an answer; "panic"; "deadlock";
\* "blocked": it waits for a mutex that is never released), the frames it
\* wrote, and the mutex as it leaves it
Outcome(end, written, mutex) == [end |-> end, written |-> written, mutex |-> mutex]

\* the handler wrote answer (or panicked making it) and returns; it owns the
\* registry guard
Answered(answer) ==
    IF answer.tag = "Ok" THEN Outcome("return", <<answer.val>>, "free")
    ELSE Outcome("panic", <<>>, "poisoned")

AnswerAndReturn(version, error) == Answered(answer_error(version, error))

\* for response in responses { new encoder, encode().unwrap(), write }
\* WriteNext: what the loop does with the bytes of one response
RECURSIVE WriteResponses(_, _, _), WriteNext(_, _, _, _)
WriteResponses(version, responses, written) ==
    IF responses = <<>> THEN Outcome("continue", written, "free")
    ELSE IF FrameEncoder_new(Lsb0, version).tag # "Ok"
    THEN Outcome("return", written, "free")
    ELSE WriteNext(version, responses, written,
                   FrameEncoder_encode(FrameEncoder_new(Lsb0, version).val,
                                       responses[1]).res)

WriteNext(version, responses, written, bytes) ==
    IF bytes.tag # "Ok" THEN Outcome("panic", written, "poisoned")
    ELSE WriteResponses(version, Tail(responses), Append(written, bytes.val))

\* the common body of handle_client and handle_message, from the decoding of
\* the frame on.  first: the decoder the buffer was given to; how: what the
\* second lock of the mutex by its owner does.  The steps of the function,
\* last first: each takes the results of the steps before it
Dispatch(transport, first, registry, mutex, how) ==
    LET quiet(fd) ==
            [frame |-> fd.res, factories |-> <<>>, decoded |-> None,
             responses |-> None, listener_calls |-> 0]
        \* tcp: frame_decoder.get_decoder().to_owned(); ws: decoder.clone()
        passed(fd) == IF transport = "tcp" THEN fd.self.decoder ELSE first
        key(fd) == <<fd.res.val.version, fd.res.val.event>>
        made(fd, decoded) ==
            [quiet(fd) EXCEPT
                 !.factories = <<[key |-> key(fd), position |-> passed(fd).position]>>,
                 !.decoded = decoded.res]
        answered(fd, decoded, gr) ==
            (CASE gr.res.tag = "NoReturn" ->
                     Outcome(gr.res.how, <<>>,
                             IF gr.res.how = "panic" THEN "poisoned" ELSE "locked")
               [] gr.res.tag = "Panic" -> Outcome("panic", <<>>, "poisoned")
               [] gr.res.tag = "Err" -> AnswerAndReturn(fd.res.val.version, gr.res.err)
               [] gr.res.tag = "Ok" ->
                     WriteResponses(fd.res.val.version, gr.res.val, <<>>))
            @@ [made(fd, decoded) EXCEPT !.responses = gr.res,
                                         !.listener_calls = gr.listener_calls]
        built(fd, decoded) ==
            IF decoded.res.tag = "Panic"
            THEN Outcome("panic", <<>>, "poisoned") @@ made(fd, decoded)
            ELSE IF decoded.res.tag = "Err"
            THEN AnswerAndReturn(fd.res.val.version, decoded.res.err) @@ made(fd, decoded)
            ELSE answered(fd, decoded,
                          EventDecoder_get_responses(decoded.self, registry, mutex,
                                                     TRUE, how))
        locked(fd, found) ==
            IF found = None
            THEN AnswerAndReturn(fd.res.val.version,
                                 Error(404, "Event not found", "NotFound"))
                 @@ quiet(fd)
            ELSE built(fd, EventDecoder_decode(factory(found.val, passed(fd)),
                                               fd.res.val))
        framed(fd) ==
            IF fd.res.tag # "Ok" THEN Outcome("panic", <<>>, mutex) @@ quiet(fd)
            ELSE IF MutexLock(mutex, FALSE, how) # "acquired"
            THEN Outcome(MutexLock(mutex, FALSE, how), <<>>, mutex) @@ quiet(fd)
            ELSE locked(fd, get_event(registry, key(fd)))
    IN  framed(FrameDecoder_decode(FrameDecoder_new(first)))

\* tcp.rs: one turn of the read loop, for the bytes read
handle_client(buffer, registry, mutex, how) ==
    Dispatch("tcp", BitDecoder_new(Msb0, buffer), registry, mutex, how)

\* ws.rs: one binary message
handle_message(message, registry, mutex, how) ==
    Dispatch("ws", BitDecoder_new(Msb0, message), registry, mutex, how)

(***************************************************************************)
(* State.                                                                  *)
(*   benc, bdec    a BitEncoder and a BitDecoder under test                *)
(*   bcall, dcall  the last call made on each (its arguments, and what the *)
(*                 object held before the call)                            *)
(*   bres, dres    what that call returned                                 *)
(*   fenc          a FrameEncoder (None until one is constructed)          *)
(*   fcall, fres   the last FrameEncoder call (with the number of encode    *)
(*                 calls made so far) and what it returned                 *)
(*   wire          the bytes handed to a FrameDecoder                      *)
(*   fdec          what FrameDecoder::decode returned for wire             *)
(*   registry      EVENT_REGISTRY_MSB                                      *)
(*   mutex         the state of the mutex around it                        *)
(*   conns         the server's connections: how each one's handler is     *)
(*                 doing and the frames written to it so far               *)
(*   req           the last request the server handled (or the last call   *)
(*                 made on the registry) and how it went                   *)
(*   handled       the number of buffers the server has been given         *)
(*   registry_lsb  EVENT_REGISTRY_LSB                                      *)
(*   once          the state of INIT (std::sync::Once) and how far the     *)
(*                 closure of init() has come                              *)
(*   log           the insertions made into the two registries, in order   *)
(*   trip          an event sent from one side to the other: what was      *)
(*                 encoded, the bytes, and what the receiver decoded       *)
(***************************************************************************)
VARIABLES benc, bcall, bres, bdec, dcall, dres, fenc, fcall, fres, wire, fdec,
          registry, mutex, conns, req, handled, registry_lsb, once, log, trip,
          DEVICES, tasks

bitVars == <<benc, bcall, bres, bdec, dcall, dres>>

frameVars == <<fenc, fcall, fres, wire, fdec>>

serverVars == <<registry, mutex, conns, req, handled>>

libVars == <<registry_lsb, once, log, trip>>

deviceVars == <<DEVICES, tasks>>

vars == <<benc, bcall, bres, bdec, dcall, dres, fenc, fcall, fres, wire, fdec,
          registry, mutex, conns, req, handled, registry_lsb, once, log, trip,
          DEVICES, tasks>>

(***************************************************************************)
(* Bounds and input sets.                                                  *)
(***************************************************************************)
\* a BitEncoder under test takes calls while it holds fewer bits than this
MaxEncBits == 4

\* a BitDecoder under test takes calls while its position is below this
MaxReadPos == 9

\* a FrameEncoder takes at most MaxCalls encode calls, and one more only
\* while it holds fewer than MaxReuseBits bits
MaxCalls == 2

MaxReuseBits == 72

\* the payload of a user event: a run of at most MaxHead equal bits, then a
\* run of the other bit, short (at most MaxTail) or long
MaxHead == 2

MaxTail == 9

\* a FrameDecoder is also given the encoded bytes with up to MaxCut bytes cut
\* off the end
MaxCut == 3

Orders == {Msb0, Lsb0}

\* field widths passed as n: u8
Widths == {0, 1, 8, 32, 33}

\* u32 values
Values == {B(0), B(1), B(5), <<Base - 1, Base - 1>>}

\* every u8
VersionBytes == 0..255

\* event ids (u16)
EventIds == {0, 48879}

\* lengths around the widths of the size field: 2^16 - 1, 2^16, and
\* 2^32 - 57, 2^32 - 1, 2^32, 2^32 + 1
LongTails ==
    {<<0, Base - 1>>, <<1, 0>>, <<Base - 1, Base - 57>>, <<Base - 1, Base - 1>>,
     <<Base, 0>>, <<Base, 1>>}

\* runs of 2^32 - 40, 2^32 - 32 and 2^32 - 8 zero bits
LongRuns ==
    {<<<<0, <<Base - 1, Base - k>> >>>> : k \in {40, 32, 8}}

Payloads ==
    {RunCat(RunPush(<<>>, b, B(h)), RunPush(<<>>, 1 - b, B(t))) :
        b \in {0, 1}, h \in 0..MaxHead, t \in 0..MaxTail}
    \cup {RunCat(RunPush(<<>>, 1, B(h)), RunPush(<<>>, 0, t)) :
        h \in 0..MaxHead, t \in LongTails}

UserEvents ==
    {UserEvent(Lsb0, e, p, FALSE) : e \in EventIds, p \in Payloads}
    \cup {UserEvent(Lsb0, e, <<>>, TRUE) : e \in EventIds}

\* the events passed to a FrameEncoder that has already been used: an empty
\* payload, a payload of one byte, and an event whose encode() fails
ReuseEvents ==
    {UserEvent(Lsb0, 0, <<>>, FALSE), UserEvent(Lsb0, 0, <<<<0, B(8)>>>>, FALSE),
     UserEvent(Lsb0, 0, <<>>, TRUE)}

\* the server has MaxConns connections, odd ones over TCP and even ones over
\* WebSocket, and is given at most MaxRequests buffers
MaxConns == 2

MaxRequests == 2

Conns == 1..MaxConns

Transport(c) == IF c % 2 = 1 THEN "tcp" ELSE "ws"

\* the bytes of a frame: version, event id, data_size (below 2^16), payload
RawFrame(version, event, size, payload) ==
    <<version, event \div 256, event % 256, 0, 0, size \div 256, size % 256>>
    \o payload

\* frames for an event without factory (0x0007) under the versions 0, 1, 2
UnknownEventFrames == {RawFrame(v, 7, 8, <<0>>) : v \in {0, 1, 2}}

\* ComponentNeedsRequest frames: the name "ab"; the same under version 2; a
\* name that is no UTF-8; a size field larger than the payload; no payload
NeedsFrames ==
    {RawFrame(1, 0, 16, <<97, 98>>), RawFrame(2, 0, 16, <<97, 98>>),
     RawFrame(1, 0, 8, <<255>>), RawFrame(1, 0, 24, <<97, 98>>),
     RawFrame(1, 0, 0, <<>>)}

\* InteractionRequest frames whose payload is one byte and then the text
\* f 0 p 0 0 0; f 0 p; 0 p 0 0 0; f 0 p 0 0 7 0; f 0 p 0 0 x 0
InteractionFrames ==
    {RawFrame(1, 5, 56, <<1, 102, 0, 112, 0, 0, 0>>),
     RawFrame(1, 5, 32, <<1, 102, 0, 112>>),
     RawFrame(1, 5, 48, <<1, 0, 112, 0, 0, 0>>),
     RawFrame(1, 5, 64, <<1, 102, 0, 112, 0, 0, 55, 0>>),
     RawFrame(1, 5, 64, <<1, 102, 0, 112, 0, 0, 120, 0>>)}

\* the buffers a connection delivers, the last one shorter than a header
Incoming ==
    {RunsOf(b) : b \in UnknownEventFrames \cup NeedsFrames \cup InteractionFrames
                         \cup {<<1, 0, 0>>}}

\* the buffers delivered once the server has already handled one
FollowUps ==
    {RunsOf(b) : b \in {RawFrame(1, 7, 8, <<0>>), RawFrame(1, 0, 16, <<97, 98>>),
                         <<1, 0, 0>>}}

\* what the listeners that users register return
Listeners ==
    [key : {<<1, 0>>},
     args : {<<Arg("OptionText", Some("Title")),
               Arg("VecText", <<"index.html", "dir/main.fyve">>)>>,
             <<Arg("OptionText", None), Arg("VecText", <<"..">>)>>,
             <<Arg("VecText", <<>>)>>}]
    \cup [key : {<<1, 5>>},
          args : {<<Arg("OptionValue", Some("json!({})"))>>,
                  <<Arg("OptionValue", None)>>}]

\* the requests on which get_responses is called outside of the dispatch
DirectRequests ==
    {[ComponentNeedsRequest_new(BitDecoder_new(Msb0, <<>>))
          EXCEPT !.requested_component_name = <<97, 98>>],
     InteractionRequest_new(BitDecoder_new(Msb0, <<>>))}

\* the server after start-up: the default factories, no listener, every
\* connection open
InitServerVars ==
    /\ registry = registry_init
    /\ mutex = "free"
    /\ conns = [c \in Conns |-> [status |-> "open", written |-> <<>>]]
    /\ req = NoCall
    /\ handled = 0

\* DEVICES, a Mutex over an empty HashMap: nobody holds the lock, no guard
\* was dropped by a panic.  No task has called listen, connect, stop or
\* send_raw_event.
NoTask == [pc |-> "idle", key |-> "", inputs |-> 0]

InitDeviceVars ==
    /\ DEVICES = [map |-> <<>>, holder |-> "none", poisoned |-> FALSE]
    /\ tasks = [t \in {"listen", "connect", "stop", "send_raw_event"} |-> NoTask]

\* the rest of the library while the objects above are under test: INIT has
\* completed, nothing was inserted into the Lsb0 registry, no event was sent
InitLibVars ==
    /\ registry_lsb = EventRegistry_new
    /\ once = [state |-> "complete", step |-> 0, calls |-> 1]
    /\ log = <<>>
    /\ trip = NoCall
    /\ InitDeviceVars

(***************************************************************************)
(* Operations on a BitEncoder and a BitDecoder.                            *)
(***************************************************************************)
AddData(data, n) ==
    /\ bdec = None
    /\ BLt(RunLen(benc.frame), B(MaxEncBits)) \/ bcall.op = "add_bitvec"
    /\ \E r \in {add_data(benc, data, n)} :
           /\ benc' = r.self
           /\ bres' = r.res
           /\ bcall' = [op |-> "add_data", data |-> data, n |-> n, before |-> benc.frame]
    /\ UNCHANGED <<bdec, dcall, dres>>
    /\ UNCHANGED frameVars
    /\ UNCHANGED serverVars
    /\ UNCHANGED libVars
    /\ UNCHANGED deviceVars

\* a long run of zero bits is appended to a short encoder
AddBitvec(bitvec) ==
    /\ bdec = None
    /\ BLt(RunLen(benc.frame), B(MaxEncBits))
    /\ \E r \in {add_bitvec(benc, bitvec)} :
           /\ benc' = r.self
           /\ bres' = r.res
           /\ bcall' = [op |-> "add_bitvec", before |-> benc.frame]
    /\ UNCHANGED <<bdec, dcall, dres>>
    /\ UNCHANGED frameVars
    /\ UNCHANGED serverVars
    /\ UNCHANGED libVars
    /\ UNCHANGED deviceVars

\* the receiver builds a decoder from the bytes the encoder returns
NewDecoder(order) ==
    /\ bdec = None
    /\ bdec' = [tag |-> "BitDecoder"] @@ BitDecoder_new(order, BitEncoder_encode(benc))
    /\ bcall' = NoCall
    /\ bres' = None
    /\ UNCHANGED <<benc, dcall, dres>>
    /\ UNCHANGED frameVars
    /\ UNCHANGED serverVars
    /\ UNCHANGED libVars
    /\ UNCHANGED deviceVars

ReadData(n) ==
    /\ bdec # None
    /\ BInt(bdec.position) < MaxReadPos
    /\ \E r \in {read_data(bdec, n)} :
           /\ bdec' = r.self
           /\ dres' = r.res
           /\ dcall' = [op |-> "read_data", n |-> n, before |-> bdec.position]
    /\ UNCHANGED <<benc, bcall, bres>>
    /\ UNCHANGED frameVars
    /\ UNCHANGED serverVars
    /\ UNCHANGED libVars
    /\ UNCHANGED deviceVars

InitBits ==
    /\ benc \in {BitEncoder_new(o) : o \in Orders}
    /\ bcall = NoCall
    /\ bres = None
    /\ bdec = None
    /\ dcall = NoCall
    /\ dres = None
    /\ fenc = None
    /\ fcall = NoCall
    /\ fres = None
    /\ wire = None
    /\ fdec = None
    /\ InitServerVars
    /\ InitLibVars

NextBits ==
    \/ \E data \in Values, n \in Widths : AddData(data, n)
    \/ \E bitvec \in LongRuns : AddBitvec(bitvec)
    \/ \E order \in Orders : NewDecoder(order)
    \/ \E n \in Widths : ReadData(n)

SpecBits == InitBits /\ [][NextBits]_vars

(***************************************************************************)
(* Operations on a FrameEncoder, and the decoding of what it returns.      *)
(***************************************************************************)
NewFrameEncoder(version) ==
    /\ fcall = NoCall
    /\ \E r \in {FrameEncoder_new(Lsb0, version)} :
           /\ fenc' = IF r.tag = "Ok" THEN r.val ELSE None
           /\ fres' = IF r.tag = "Ok" THEN Ok("FrameEncoder") ELSE r
    /\ fcall' = [op |-> "new", version |-> version,
                 from_u8 |-> Version_from_u8(version), calls |-> 0]
    /\ wire' = None
    /\ fdec' = None
    /\ UNCHANGED bitVars
    /\ UNCHANGED serverVars
    /\ UNCHANGED libVars
    /\ UNCHANGED deviceVars

Encode(frame) ==
    /\ fenc # None
    /\ wire = None
    /\ fcall.calls < MaxCalls
    /\ fcall.calls = 0 \/ frame \in ReuseEvents
    /\ BLt(RunLen(fenc.encoder.frame), B(MaxReuseBits))
    /\ \E r \in {FrameEncoder_encode(fenc, frame)} :
           /\ fenc' = r.self
           /\ fres' = r.res
    /\ fcall' = [op |-> "encode", frame |-> frame, before |-> fenc.encoder.frame,
                 calls |-> fcall.calls + 1]
    /\ wire' = None
    /\ fdec' = None
    /\ UNCHANGED bitVars
    /\ UNCHANGED serverVars
    /\ UNCHANGED libVars
    /\ UNCHANGED deviceVars

\* the bytes returned by encode, less cut bytes at the end, reach a decoder
Decode(cut) ==
    /\ fcall.op = "encode"
    /\ fres.tag = "Ok"
    /\ wire = None
    /\ BLe(B(cut), RunLen(fres.val))
    /\ \E bytes \in {RunTake(fres.val, BSub(RunLen(fres.val), B(cut)))} :
       \E r \in {FrameDecoder_decode(FrameDecoder_new(BitDecoder_new(Msb0, bytes)))} :
           /\ wire' = [tag |-> "Bytes", bytes |-> bytes, cut |-> cut]
           /\ fdec' = [tag |-> "Decoded", res |-> r.res,
                       position |-> r.self.decoder.position]
    /\ UNCHANGED <<fenc, fcall, fres>>
    /\ UNCHANGED bitVars
    /\ UNCHANGED serverVars
    /\ UNCHANGED libVars
    /\ UNCHANGED deviceVars

InitFrame ==
    /\ benc = BitEncoder_new(Lsb0)
    /\ bcall = NoCall
    /\ bres = None
    /\ bdec = None
    /\ dcall = NoCall
    /\ dres = None
    /\ fenc = None
    /\ fcall = NoCall
    /\ fres = None
    /\ wire = None
    /\ fdec = None
    /\ InitServerVars
    /\ InitLibVars

NextFrame ==
    \/ \E version \in VersionBytes : NewFrameEncoder(version)
    \/ \E frame \in UserEvents : Encode(frame)
    \/ \E cut \in 0..MaxCut : Decode(cut)

SpecFrame == InitFrame /\ [][NextFrame]_vars

(***************************************************************************)
(* The server: registration of listeners, the handlers of the connections, *)
(* and get_responses called by a thread that holds no lock.                *)
(***************************************************************************)
\* EVENT_REGISTRY_MSB.lock().unwrap().add_listener(key, listener), before the
\* server is given buffers
AddListener(l) ==
    /\ handled = 0
    /\ MutexLock(mutex, FALSE, "deadlock") = "acquired"
    /\ registry' = add_listener(registry, l.key, l.args)
    /\ req' = [op |-> "add_listener", key |-> l.key]
    /\ UNCHANGED <<mutex, conns, handled>>
    /\ UNCHANGED bitVars
    /\ UNCHANGED frameVars
    /\ UNCHANGED libVars
    /\ UNCHANGED deviceVars

\* what a handler's end makes of its connection: a TCP handler that returns
\* drops the stream, a WebSocket one goes on to the next message
StatusAfter(c, end) ==
    CASE end = "continue" -> "open"
      [] end = "return" -> IF Transport(c) = "tcp" THEN "closed" ELSE "open"
      [] end = "panic" -> "panicked"
      [] end \in {"deadlock", "blocked"} -> "blocked"

\* connection c delivers buffer to its handler
Handle(c, buffer, how) ==
    /\ conns[c].status = "open"
    /\ handled < MaxRequests
    /\ handled = 0 \/ buffer \in FollowUps
    /\ \E r \in {IF Transport(c) = "tcp"
                THEN handle_client(buffer, registry, mutex, how)
                ELSE handle_message(buffer, registry, mutex, how)} :
           /\ req' = [op |-> "handle", conn |-> c, transport |-> Transport(c),
                      buffer |-> buffer, registry |-> registry,
                      mutex_before |-> mutex] @@ r
           /\ mutex' = r.mutex
           /\ conns' = [conns EXCEPT ![c] = [status |-> StatusAfter(c, r.end),
                                             written |-> @.written \o r.written]]
    /\ handled' = handled + 1
    /\ UNCHANGED registry
    /\ UNCHANGED bitVars
    /\ UNCHANGED frameVars
    /\ UNCHANGED libVars
    /\ UNCHANGED deviceVars

HandleClient(c, buffer, how) == Transport(c) = "tcp" /\ Handle(c, buffer, how)

HandleMessage(c, message, how) == Transport(c) = "ws" /\ Handle(c, message, how)

\* ws.rs handle_connection: a message that is not binary is answered with
\* 400 Bad Request and ends the connection
RefuseText(c) ==
    /\ Transport(c) = "ws"
    /\ conns[c].status = "open"
    /\ handled < MaxRequests
    /\ \E answer \in {answer_error(Version_to_u8("V1"),
                                    Error(400, "Bad Request", "BadRequest"))} :
           /\ conns' = [conns EXCEPT ![c] = [status |-> "closed",
                                             written |-> Append(@.written, answer.val)]]
           /\ req' = [op |-> "refuse_text", conn |-> c, written |-> <<answer.val>>]
    /\ handled' = handled + 1
    /\ UNCHANGED <<registry, mutex>>
    /\ UNCHANGED bitVars
    /\ UNCHANGED frameVars
    /\ UNCHANGED libVars
    /\ UNCHANGED deviceVars

\* a thread that holds no lock calls get_responses on a decoded request
GetResponses(event) ==
    /\ req.op # "get_responses"
    /\ \E r \in {EventDecoder_get_responses(event, registry, mutex, FALSE, "deadlock")} :
           req' = [op |-> "get_responses", event |-> event, registry |-> registry,
                   mutex_before |-> mutex, responses |-> r.res,
                   listener_calls |-> r.listener_calls]
    /\ UNCHANGED <<registry, mutex, conns, handled>>
    /\ UNCHANGED bitVars
    /\ UNCHANGED frameVars
    /\ UNCHANGED libVars
    /\ UNCHANGED deviceVars

InitServer ==
    /\ benc = BitEncoder_new(Lsb0)
    /\ bcall = NoCall
    /\ bres = None
    /\ bdec = None
    /\ dcall = NoCall
    /\ dres = None
    /\ fenc = None
    /\ fcall = NoCall
    /\ fres = None
    /\ wire = None
    /\ fdec = None
    /\ InitServerVars
    /\ InitLibVars

NextServer ==
    \/ \E l \in Listeners : AddListener(l)
    \/ \E c \in Conns, buffer \in Incoming, how \in {"deadlock", "panic"} :
           HandleClient(c, buffer, how)
    \/ \E c \in Conns, message \in Incoming, how \in {"deadlock", "panic"} :
           HandleMessage(c, message, how)
    \/ \E c \in Conns : RefuseText(c)
    \/ \E event \in DirectRequests : GetResponses(event)

SpecServer == InitServer /\ [][NextServer]_vars

(***************************************************************************)
(* The frame a call of encode is expected to return for its event.         *)
(***************************************************************************)
IsSizeViolation(res) ==
    res.tag = "Err" /\ res.err.kind = "SizeConstraintViolation"

\* version (8 bits), event (16 bits), size (32 bits), most significant bit first
HeaderBits(hv, he, hs) ==
    PushField(PushField(PushField(<<>>, B(hv), 8), B(he), 16), hs, 32)

\* zero bits up to the next byte boundary
PaddingBits(total) ==
    IF BMod8(total) = 0 THEN <<>> ELSE <<<<0, B(8 - BMod8(total))>>>>

OneFrameBits(v, e, d) ==
    LET unpadded == RunCat(HeaderBits(v, e, RunLen(d)), d)
    IN  RunCat(unpadded, PaddingBits(RunLen(unpadded)))

EncodeReturnedBytes == fcall.op = "encode" /\ fres.tag = "Ok"

(***************************************************************************)
(* C1: decoding (FrameDecoder over a Msb0 BitDecoder) the bytes returned   *)
(* by FrameEncoder<Lsb0>::encode for a payload of 8 to 2^32 bits yields a  *)
(* Frame with the same version and event id, data_size equal to the        *)
(* payload's length in bits, and data equal to the payload's bits.  Stated *)
(* for the first encode call of a FrameEncoder.                            *)
(***************************************************************************)
C1_FrameRoundTrip ==
    (fdec # None /\ wire.cut = 0 /\ fcall.before = <<>>) =>
        /\ fdec.res.tag = "Ok"
        /\ fdec.res.val.version = Version_to_u8(fenc.version)
        /\ fdec.res.val.event = fcall.frame.event
        /\ B(fdec.res.val.data_size) = RunLen(fcall.frame.data)
        /\ fdec.res.val.data = fcall.frame.data

(***************************************************************************)
(* C2: add_data(value, n) with n > 32 returns SizeConstraintViolation with *)
(* code 0b1000 and leaves the bit vector unchanged; with n <= 32 and       *)
(* length + n <= 2^32 it succeeds and appends exactly n bits.              *)
(***************************************************************************)
C2_AddData ==
    bcall.op = "add_data" =>
        LET len == RunLen(bcall.before)
        IN  /\ bcall.n > 32 =>
                /\ IsSizeViolation(bres)
                /\ bres.err.code = 8
                /\ benc.frame = bcall.before
            /\ (bcall.n <= 32 /\ BLe(BAdd(len, B(bcall.n)), Pow2_32)) =>
                /\ bres.tag = "Ok"
                /\ RunLen(benc.frame) = BAdd(len, B(bcall.n))
                /\ RunTake(benc.frame, len) = bcall.before

\* add_data(1, 33) was called on an encoder that already holds bits
C2_Witness ==
    /\ bcall.op = "add_data"
    /\ bcall.n = 33
    /\ bcall.data = B(1)
    /\ bcall.before # <<>>
    /\ bres.tag = "Err"

(***************************************************************************)
(* C3: read_data(n) returns SizeConstraintViolation (code 0b1000) exactly  *)
(* when position + n exceeds the length of the buffer; a failed read       *)
(* leaves the position unchanged, a successful one advances it by n.       *)
(***************************************************************************)
C3_ReadData ==
    dcall.op = "read_data" =>
        LET end == BAdd(dcall.before, B(dcall.n))
        IN  /\ (dres.tag = "Err") <=> BLt(RunLen(bdec.frame), end)
            /\ dres.tag = "Err" =>
                /\ IsSizeViolation(dres)
                /\ dres.err.code = 8
                /\ bdec.position = dcall.before
            /\ dres.tag = "Ok" => bdec.position = end

\* a read that ends exactly at the end of the buffer, after earlier reads
C3_Witness ==
    /\ dcall.op = "read_data"
    /\ dcall.before # B(0)
    /\ dcall.n > 0
    /\ dres.tag = "Ok"
    /\ bdec.position = RunLen(bdec.frame)

(***************************************************************************)
(* C4: encode returns SizeConstraintViolation with code 0b1001 when the    *)
(* event's payload is shorter than 8 bits and with code 0b1000 when it is  *)
(* longer than 2^32 bits; for a payload of 8 to 2^32 bits whose event      *)
(* encoder succeeded it never returns SizeConstraintViolation.             *)
(***************************************************************************)
C4_EncodeSizeErrors ==
    (fcall.op = "encode" /\ ~fcall.frame.fails) =>
        LET size == RunLen(fcall.frame.data)
        IN  /\ BLt(size, B(8)) => (IsSizeViolation(fres) /\ fres.err.code = 9)
            /\ BLt(Pow2_32, size) => (IsSizeViolation(fres) /\ fres.err.code = 8)
            /\ (BLe(B(8), size) /\ BLe(size, Pow2_32)) => ~IsSizeViolation(fres)

(***************************************************************************)
(* C5: FrameDecoder::decode returns SizeConstraintViolation (no crash, no  *)
(* Frame) for every buffer holding fewer than 56 + data_size bits, also    *)
(* when the header is complete and the payload is shorter than announced.  *)
(***************************************************************************)
\* the 32-bit size field of a buffer that holds a whole header
AnnouncedSize(bits) == ReadBits(RunDrop(bits, B(24)), 32)

BufferTooShort(bits) ==
    \/ BLt(RunLen(bits), B(56))
    \/ BLt(RunLen(bits), BAdd(B(56), AnnouncedSize(bits)))

C5_ShortBufferRejected ==
    (fdec # None /\ BufferTooShort(from_slice(Msb0, wire.bytes))) =>
        IsSizeViolation(fdec.res)

(***************************************************************************)
(* C6: every byte vector returned by a successful encode is the 8-bit      *)
(* version, the 16-bit event id, the 32-bit data_size and the data_size    *)
(* payload bits, in that order, followed by 0 to 7 zero bits; its length   *)
(* is ceil((56 + data_size) / 8) bytes.                                    *)
(***************************************************************************)
C6_FrameLayout ==
    EncodeReturnedBytes =>
        LET bits == from_slice(Msb0, fres.val)
            payload == fcall.frame.data
            size == RunLen(payload)
            rest == RunDrop(bits, BAdd(B(56), size))
        IN  /\ RunTake(bits, B(56)) =
                   HeaderBits(Version_to_u8(fenc.version), fcall.frame.event, size)
            /\ RunTake(RunDrop(bits, B(56)), size) = payload
            /\ rest = <<>> \/ (Len(rest) = 1 /\ rest[1][1] = 0 /\ BLt(rest[1][2], B(8)))
            /\ BInt(RunLen(fres.val)) = BDiv8(BAdd(BAdd(B(56), size), B(7)))

(***************************************************************************)
(* C7: for any sequence of encode calls on one FrameEncoder, also after a  *)
(* failed call, each byte vector returned is exactly one complete frame of *)
(* the event passed to that call, with no bits left from an earlier call.  *)
(***************************************************************************)
C7_OneFramePerCall ==
    EncodeReturnedBytes =>
        fres.val = into_vec(Msb0, OneFrameBits(Version_to_u8(fenc.version),
                                               fcall.frame.event, fcall.frame.data))

(***************************************************************************)
(* C40: for every payload that encode accepts (8 to 2^32 bits), the 32-bit *)
(* data_size field of the header it returns is the number of bits of the   *)
(* payload, and a FrameDecoder given the whole bytes returns a Frame whose *)
(* data_size is that number.  Stated for the first encode call of a        *)
(* FrameEncoder.                                                           *)
(***************************************************************************)
C40_DataSizeField ==
    (EncodeReturnedBytes /\ fcall.before = <<>>) =>
        /\ AnnouncedSize(from_slice(Msb0, fres.val)) = RunLen(fcall.frame.data)
        /\ (fdec # None /\ wire.cut = 0) =>
               /\ fdec.res.tag = "Ok"
               /\ B(fdec.res.val.data_size) = RunLen(fcall.frame.data)

(***************************************************************************)
(* C8: Version::from_u8(b) returns a version only for b = 1 and an         *)
(* UnknownVersion error with code 0b1010 for every other byte, 0 included; *)
(* to_u8(from_u8(b)) = b for every accepted b; FrameEncoder::new(b) fails  *)
(* in the same way, so no FrameEncoder exists for an unknown version.      *)
(***************************************************************************)
IsUnknownVersion(res) ==
    res.tag = "Err" /\ res.err.kind = "UnknownVersion" /\ res.err.code = 10

C8_UnknownVersion ==
    fcall.op = "new" =>
        /\ (fcall.from_u8.tag = "Ok") <=> (fcall.version = 1)
        /\ fcall.version # 1 => IsUnknownVersion(fcall.from_u8)
        /\ fcall.from_u8.tag = "Ok" => Version_to_u8(fcall.from_u8.val) = fcall.version
        /\ fcall.version # 1 => (IsUnknownVersion(fres) /\ fenc = None)
        /\ fcall.version = 1 => (fres.tag = "Ok" /\ fenc # None)

\* FrameEncoder::new(0) was called and refused
C8_Witness ==
    /\ fcall.op = "new"
    /\ fcall.version = 0
    /\ fres.tag = "Err"
    /\ fenc = None

(***************************************************************************)
(* The answers of the server.                                              *)
(***************************************************************************)
\* the payload of a 0x0002 ErrorResponse: the code (16 bits), 8 zero bits,
\* the octets of the message
ErrorPayload(code, message) ==
    RunCat(PushField(PushField(<<>>, B(code), 16), B(0), 8),
           BytesBits(as_bytes(message), 1, Len(as_bytes(message))))

\* the bytes written are one frame of event 0x0002
IsErrorFrame(bytes) ==
    /\ FrameDecoder_decode(FrameDecoder_new(BitDecoder_new(Msb0, bytes))).res.tag = "Ok"
    /\ FrameDecoder_decode(FrameDecoder_new(BitDecoder_new(Msb0, bytes))).res.val.event = 2

ErrorFrameData(bytes) ==
    FrameDecoder_decode(FrameDecoder_new(BitDecoder_new(Msb0, bytes))).res.val.data

\* a handler was given a buffer that holds a whole frame while the registry
\* mutex was free
HandledFrame ==
    req.op = "handle" /\ req.frame.tag = "Ok" /\ req.mutex_before = "free"

HandledKey == <<req.frame.val.version, req.frame.val.event>>

(***************************************************************************)
(* C9: for every incoming frame whose (version, event) pair has no factory *)
(* in the registry, whatever its version byte, the server writes to the    *)
(* connection exactly one frame, a 0x0002 ErrorResponse carrying code 404  *)
(* and the message "Event not found", and calls no factory and no          *)
(* listener.                                                               *)
(***************************************************************************)
C9_UnknownEventAnswered ==
    (HandledFrame /\ HandledKey \notin DOMAIN req.registry.events) =>
        /\ Len(req.written) = 1
        /\ IsErrorFrame(req.written[1])
        /\ ErrorFrameData(req.written[1]) = ErrorPayload(404, "Event not found")
        /\ req.factories = <<>>
        /\ req.listener_calls = 0

(***************************************************************************)
(* C10: when the server dispatches a frame of a registered event (0x0000   *)
(* or 0x0005) that its factory decodes, and no listener is registered for  *)
(* that key, get_responses returns an Error of kind NotFound with code 404 *)
(* and the server answers the peer with one 0x0002 ErrorResponse carrying  *)
(* the code 404.                                                           *)
(***************************************************************************)
IsNotFound(res) ==
    res.tag = "Err" /\ res.err.kind = "NotFound" /\ res.err.code = 404

C10_MissingListenerAnswered ==
    (/\ HandledFrame
     /\ HandledKey \in {<<1, 0>>, <<1, 5>>}
     /\ HandledKey \in DOMAIN req.registry.events
     /\ HandledKey \notin DOMAIN req.registry.listeners
     /\ req.decoded.tag = "Ok") =>
        /\ IsNotFound(req.responses)
        /\ Len(req.written) = 1
        /\ IsErrorFrame(req.written[1])
        /\ RunTake(ErrorFrameData(req.written[1]), B(16)) = PushField(<<>>, B(404), 16)

(***************************************************************************)
(* C11: whenever frame decoding, event decoding or response production for *)
(* an incoming request fails with an Error while the peer is connected,    *)
(* the server writes to the peer one 0x0002 ErrorResponse carrying that    *)
(* Error's code and message; it does not stop without answering.           *)
(***************************************************************************)
\* a handler, given a buffer while the registry mutex was free, met an Error
HandlerFailed ==
    /\ req.op = "handle"
    /\ req.mutex_before = "free"
    /\ req.frame.tag = "Err" \/ req.decoded.tag = "Err" \/ req.responses.tag = "Err"

\* the Error it met
HandlerError ==
    IF req.frame.tag = "Err" THEN req.frame.err
    ELSE IF req.decoded.tag = "Err" THEN req.decoded.err
    ELSE req.responses.err

C11_ErrorsAnswered ==
    HandlerFailed =>
        /\ Len(req.written) = 1
        /\ IsErrorFrame(req.written[1])
        /\ ErrorFrameData(req.written[1]) =
               ErrorPayload(HandlerError.code, HandlerError.message)

(***************************************************************************)
(* C12: for a ComponentNeedsRequest whose listener returns (title,         *)
(* [p1..pn]), the frames the server writes on the connection are, in this  *)
(* order, one 0x0003 ComponentNeedsResponse and then one frame per path, a *)
(* 0x0001 HtmlFileResponse if the path ends in ".html" and a 0x0004        *)
(* FullFyveResponse otherwise.                                             *)
(***************************************************************************)
\* the event ids of the frames a request for these paths is answered with
ExpectedEvents(paths) ==
    <<3>> \o [i \in 1..Len(paths) |-> IF ends_with_html(paths[i]) THEN 1 ELSE 4]

\* the event id of the frame these bytes hold (0xFFFF if they hold none)
WrittenEvent(bytes) ==
    IF FrameDecoder_decode(FrameDecoder_new(BitDecoder_new(Msb0, bytes))).res.tag = "Ok"
    THEN FrameDecoder_decode(FrameDecoder_new(BitDecoder_new(Msb0, bytes))).res.val.event
    ELSE 65535

\* the listener of ComponentNeedsRequest returns a title and paths with a
\* file name
IsNeedsAnswer(args) ==
    /\ Len(args) = 2
    /\ args[1].kind = "OptionText"
    /\ args[2].kind = "VecText"
    /\ \A i \in 1..Len(args[2].value) : file_name(args[2].value[i]) # None

C12_ResponsesInOrder ==
    (/\ HandledFrame
     /\ HandledKey = <<1, 0>>
     /\ req.decoded.tag = "Ok"
     /\ <<1, 0>> \in DOMAIN req.registry.listeners
     /\ IsNeedsAnswer(req.registry.listeners[<<1, 0>>])) =>
        /\ Len(req.written) = Len(ExpectedEvents(req.registry.listeners[<<1, 0>>][2].value))
        /\ \A i \in 1..Len(req.written) :
               WrittenEvent(req.written[i]) =
                   ExpectedEvents(req.registry.listeners[<<1, 0>>][2].value)[i]

(***************************************************************************)
(* C23: a server thread never locks EVENT_REGISTRY_MSB while it holds it:  *)
(* for a request whose factory and listener are registered, get_responses  *)
(* returns and the frames of its responses are written to the peer.        *)
(***************************************************************************)
C23_NoRelock ==
    (/\ HandledFrame
     /\ HandledKey \in DOMAIN req.registry.events
     /\ HandledKey \in DOMAIN req.registry.listeners
     /\ req.decoded.tag = "Ok") =>
        /\ req.responses.tag \in {"Ok", "Err"}
        /\ req.responses.tag = "Ok" =>
               /\ req.end = "continue"
               /\ Len(req.written) = Len(req.responses.val)

(***************************************************************************)
(* C24: whenever a dispatcher of the server calls a factory of the         *)
(* registry, the BitDecoder it passes has position 56, the first bit after *)
(* the header of the frame.                                                *)
(***************************************************************************)
C24_FactoryPosition ==
    req.op = "handle" =>
        \A i \in DOMAIN req.factories : req.factories[i].position = B(56)

(***************************************************************************)
(* The two registries and their initialisation.  init() is run by the      *)
(* loader (#[ctor]); its body is INIT.call_once(closure), and the closure  *)
(* makes one insertion per statement, each under the lock of its registry, *)
(* which is released at the end of the statement.  The loader runs init()  *)
(* before main, so the threads of the user insert once INIT has completed; *)
(* they insert through the same locks, so every insertion is one step.     *)
(***************************************************************************)
MaxAdds == 3

MaxInitCalls == 3

\* the insertions of the closure of init(), in the order of the statements, in
\* a build with every feature
InitInsertions ==
    <<[reg |-> "msb", key |-> <<1, 0>>, fn |-> "ComponentNeedsRequest"],
      [reg |-> "msb", key |-> <<1, 5>>, fn |-> "InteractionRequest"],
      [reg |-> "msb", key |-> <<1, 1>>, fn |-> "HtmlFileResponse"],
      [reg |-> "lsb", key |-> <<1, 2>>, fn |-> "ErrorResponse"],
      [reg |-> "lsb", key |-> <<1, 3>>, fn |-> "ComponentNeedsResponse"],
      [reg |-> "msb", key |-> <<1, 4>>, fn |-> "FullFyveResponse"],
      [reg |-> "lsb", key |-> <<1, 6>>, fn |-> "InteractionResponse"]>>

\* Once::call_once: TRUE when the caller is the one to run the closure
call_once_every_time(state) == TRUE

call_once(state) == state = "incomplete"

\* what users insert
UserKeys == {<<1, 0>>, <<1, 2>>}

UserFns == {"UserA", "UserB"}

RegistryNames == {"msb", "lsb"}

Tables == {"events", "listeners"}

RegistryOf(name) == IF name = "msb" THEN registry ELSE registry_lsb

\* the insertion of fn for key into a table of a registry
Inserted(self, table, key, fn) ==
    IF table = "events" THEN add_event(self, key, fn)
    ELSE add_listener(self, key, fn)

Lookup(self, table, key) ==
    IF table = "events" THEN get_event(self, key) ELSE get_listener(self, key)

Insertion(reg, table, key, fn, by) ==
    [reg |-> reg, table |-> table, key |-> key, fn |-> fn, by |-> by]

\* a call of init(): call_once runs the closure, waits for the thread that is
\* running it, or returns at once
CallInit ==
    /\ once.calls < MaxInitCalls
    /\ \/ /\ call_once(once.state)
          /\ once' = [state |-> "running", step |-> 1, calls |-> once.calls + 1]
       \/ /\ ~call_once(once.state)
          /\ once.state = "complete"
          /\ once' = [once EXCEPT !.calls = @ + 1]
    /\ UNCHANGED <<registry, registry_lsb, log, trip>>
    /\ UNCHANGED <<mutex, conns, req, handled>>
    /\ UNCHANGED bitVars
    /\ UNCHANGED frameVars
    /\ UNCHANGED deviceVars

\* the next statement of the closure
InitStep ==
    /\ once.state = "running"
    /\ \E i \in {InitInsertions[once.step]} :
           /\ registry' = IF i.reg = "msb" THEN add_event(registry, i.key, i.fn)
                          ELSE registry
           /\ registry_lsb' = IF i.reg = "lsb"
                              THEN add_event(registry_lsb, i.key, i.fn)
                              ELSE registry_lsb
           /\ log' = Append(log, Insertion(i.reg, "events", i.key, i.fn, "init"))
    /\ once' = IF once.step = Len(InitInsertions)
               THEN [once EXCEPT !.state = "complete", !.step = 0]
               ELSE [once EXCEPT !.step = @ + 1]
    /\ UNCHANGED trip
    /\ UNCHANGED <<mutex, conns, req, handled>>
    /\ UNCHANGED bitVars
    /\ UNCHANGED frameVars
    /\ UNCHANGED deviceVars

UserInsertions == Len(SelectSeq(log, LAMBDA e : e.by = "user"))

\* REGISTRY.lock().unwrap().add_event(key, fn) by a thread of the user
AddEvent(reg, key, fn) ==
    /\ once.state = "complete"
    /\ UserInsertions < MaxAdds
    /\ registry' = IF reg = "msb" THEN add_event(registry, key, fn) ELSE registry
    /\ registry_lsb' = IF reg = "lsb" THEN add_event(registry_lsb, key, fn)
                       ELSE registry_lsb
    /\ log' = Append(log, Insertion(reg, "events", key, fn, "user"))
    /\ UNCHANGED <<once, trip>>
    /\ UNCHANGED <<mutex, conns, req, handled>>
    /\ UNCHANGED bitVars
    /\ UNCHANGED frameVars
    /\ UNCHANGED deviceVars

\* REGISTRY.lock().unwrap().add_listener(key, fn) by a thread of the user
AddListenerTo(reg, key, fn) ==
    /\ once.state = "complete"
    /\ UserInsertions < MaxAdds
    /\ registry' = IF reg = "msb" THEN add_listener(registry, key, fn)
                   ELSE registry
    /\ registry_lsb' = IF reg = "lsb" THEN add_listener(registry_lsb, key, fn)
                       ELSE registry_lsb
    /\ log' = Append(log, Insertion(reg, "listeners", key, fn, "user"))
    /\ UNCHANGED <<once, trip>>
    /\ UNCHANGED <<mutex, conns, req, handled>>
    /\ UNCHANGED bitVars
    /\ UNCHANGED frameVars
    /\ UNCHANGED deviceVars

\* the process as it is loaded: both registries empty, INIT not yet called
InitRegistry ==
    /\ benc = BitEncoder_new(Lsb0)
    /\ bcall = NoCall
    /\ bres = None
    /\ bdec = None
    /\ dcall = NoCall
    /\ dres = None
    /\ fenc = None
    /\ fcall = NoCall
    /\ fres = None
    /\ wire = None
    /\ fdec = None
    /\ registry = EventRegistry_new
    /\ mutex = "free"
    /\ conns = [c \in Conns |-> [status |-> "open", written |-> <<>>]]
    /\ req = NoCall
    /\ handled = 0
    /\ registry_lsb = EventRegistry_new
    /\ once = [state |-> "incomplete", step |-> 0, calls |-> 0]
    /\ log = <<>>
    /\ trip = NoCall
    /\ InitDeviceVars

NextRegistry ==
    \/ CallInit
    \/ InitStep
    \/ \E reg \in RegistryNames, key \in UserKeys, fn \in UserFns :
           AddEvent(reg, key, fn)
    \/ \E reg \in RegistryNames, key \in UserKeys, fn \in UserFns :
           AddListenerTo(reg, key, fn)

SpecRegistry == InitRegistry /\ [][NextRegistry]_vars

\* the insertions of the log into a table of a registry for a key
InsertionsFor(reg, table, key) ==
    SelectSeq(log, LAMBDA e : e.reg = reg /\ e.table = table /\ e.key = key)

\* what was most recently inserted there, if anything
LastInserted(reg, table, key) ==
    IF InsertionsFor(reg, table, key) = <<>> THEN None
    ELSE Some(InsertionsFor(reg, table, key)[Len(InsertionsFor(reg, table, key))].fn)

AllKeys == UserKeys \cup {InitInsertions[i].key : i \in DOMAIN InitInsertions}

\* C13: after any sequence of insertions, get_event(k) and get_listener(k) of
\* each registry return what was most recently added to that table of that
\* registry for k, and nothing if nothing was added for k; hence an insertion
\* changes no other key, not the other table and not the other registry.
C13_LookupReturnsLastAdded ==
    \A reg \in RegistryNames, table \in Tables, key \in AllKeys :
        Lookup(RegistryOf(reg), table, key) = LastInserted(reg, table, key)

\* a factory was replaced in a registry that holds other keys, while the other
\* table and the other registry hold something else for the same key
C13_Witness ==
    /\ Len(InsertionsFor("msb", "events", <<1, 0>>)) >= 2
    /\ get_event(registry, <<1, 0>>) = Some("UserB")
    /\ InsertionsFor("msb", "events", <<1, 0>>)[1].fn # "UserB"
    /\ get_event(registry, <<1, 5>>) = Some("InteractionRequest")
    /\ get_listener(registry, <<1, 0>>) = Some("UserA")
    /\ get_event(registry_lsb, <<1, 0>>) = None

\* the insertions that the closure of init() has made
InitLog == SelectSeq(log, LAMBDA e : e.by = "init")

\* log[n] is the last insertion of a user into its slot
IsLastUserInsertion(n) ==
    /\ log[n].by = "user"
    /\ \A m \in (n + 1)..Len(log) :
           log[m].by = "user" =>
               <<log[m].reg, log[m].table, log[m].key>>
                   # <<log[n].reg, log[n].table, log[n].key>>

\* C14: the closure of init() runs once: its insertions are made at most once
\* each, exactly once when INIT has completed, whatever the number of calls of
\* init(); and what a user inserted after INIT completed is what the lookup
\* returns until a user replaces it.
C14_InitialisedOnce ==
    /\ Len(InitLog) <= Len(InitInsertions)
    /\ \A n \in 1..Len(InitLog) :
           /\ InitLog[n].reg = InitInsertions[n].reg
           /\ InitLog[n].key = InitInsertions[n].key
           /\ InitLog[n].fn = InitInsertions[n].fn
    /\ once.state = "complete" => Len(InitLog) = Len(InitInsertions)
    /\ \A n \in 1..Len(log) :
           IsLastUserInsertion(n) =>
               Lookup(RegistryOf(log[n].reg), log[n].table, log[n].key)
                   = Some(log[n].fn)

\* init() was called again after a user replaced a default factory
C14_Witness ==
    /\ once.state = "complete"
    /\ once.calls >= 2
    /\ Len(log) = Len(InitInsertions) + 1
    /\ log[Len(log)].by = "user"
    /\ log[Len(log)].key = <<1, 0>>
    /\ log[Len(log)].reg = "msb"
    /\ log[Len(log)].table = "events"
    /\ get_event(registry, <<1, 0>>) = Some(log[Len(log)].fn)

\* the events of the responses, which the client decodes
ClientEvents == {1, 2, 3, 4, 6}

\* handle_message of the client: registry.get_event((data.version,
\* data.event)) on EVENT_REGISTRY_MSB
Client_get_factory(version, event) == get_event(registry, <<version, event>>)

\* C35: once init() has completed and before a user inserts anything, the
\* lookup of the client dispatcher for (1, event) finds every default
\* response decoder that init() registered (events 0x0001, 0x0002, 0x0003,
\* 0x0004 and 0x0006).
C35_ClientDecodersFound ==
    (once.state = "complete" /\ UserInsertions = 0) =>
        \A n \in DOMAIN InitInsertions :
            InitInsertions[n].key[2] \in ClientEvents =>
                Client_get_factory(1, InitInsertions[n].key[2]) = Some(InitInsertions[n].fn)


(***************************************************************************)
(* Events sent from one side to the other: the sender encodes the event    *)
(* into a frame of version 1 with a new FrameEncoder<Lsb0>; the receiver    *)
(* decodes the frame with a FrameDecoder over BitDecoder::<Msb0>::new of    *)
(* the bytes, takes the decoder back from it (get_decoder) and gives it to *)
(* the decoder of the event.                                               *)
(***************************************************************************)
\* encoder.encode(Box::new(event)) on FrameEncoder::<R>::new(1).unwrap(),
\* R being the bit order of the event: encode takes Box<dyn EventEncoder<R>>
Sent(event, encode(_)) ==
    FrameEncoder_encode_event(FrameEncoder_new(event.encoder.order, 1).val, event,
                              encode(event)).res

\* the frame decoding of the receiver: the decoder after it, and its result.
\* order is the bit order of the decoder that the event decoder takes
Received(order, bytes) ==
    FrameDecoder_decode(FrameDecoder_new(BitDecoder_new(order, bytes)))

\* client/versions/v1/r0x0006.rs
Client_InteractionResponse_new(decoder) ==
    [type |-> "Client_InteractionResponse", decoder |-> decoder,
     request_id |-> <<B(0), B(0)>>, response |-> None]

\* the frame is not used; the loop runs once per byte of the whole buffer
Client_InteractionResponse_decode(self) ==
    LET at(d) == [self EXCEPT !.decoder = d]
        parsed(r1, r2, rb, value) ==
            [self |-> [at(rb.self) EXCEPT
                           !.request_id = <<r1.res.val, r2.res.val>>,
                           !.response = Some(IF value.tag = "Ok" THEN value.val
                                             ELSE "Value::Null")],
             res |-> Ok("unit")]
        texted(r1, r2, rb) ==
            IF rb.res.tag # "Ok"
            THEN [self |-> [at(rb.self) EXCEPT
                                !.request_id = <<r1.res.val, r2.res.val>>],
                  res |-> rb.res]
            ELSE IF ~IsUtf8(rb.res.val)
            THEN [self |-> [at(rb.self) EXCEPT
                                !.request_id = <<r1.res.val, r2.res.val>>],
                  res |-> Panic]
            ELSE parsed(r1, r2, rb, serde_json_from_str(rb.res.val))
        second(r1, r2) ==
            IF r2.res.tag # "Ok" THEN [self |-> at(r2.self), res |-> r2.res]
            ELSE texted(r1, r2, ReadBytes(r2.self, BDiv8(RunLen(self.decoder.frame))))
        first(r1) ==
            IF r1.res.tag # "Ok" THEN [self |-> at(r1.self), res |-> r1.res]
            ELSE second(r1, read_data(r1.self, 32))
    IN  first(read_data(self.decoder, 32))

\* the octets of the names that are sent: "test", one and two letters, a
\* letter of two octets, and names of 8192 and 8193 NUL characters
(***************************************************************************)
(* client/bits/utils.rs: the fyve reader.                                  *)
(***************************************************************************)
OperatingCode_from(fy) == IF fy = 0 THEN "System" ELSE "Character"

OperationCode_from(fy) ==
    CASE fy = 0 -> "Utf8Chain"
      [] fy = 16 -> "StartOfTag"
      [] fy = 17 -> "StartOfAttributes"
      [] fy = 24 -> "StartOfData"
      [] fy = 25 -> "EndOfData"
      [] OTHER -> "Unknown"

read_fyve(decoder) == read_data(decoder, 5)

\* while next_fyve == 0x1f: read one more fyve
RECURSIVE ReadChain(_, _)
ReadChain(decoder, value) ==
    LET next(r) ==
            IF r.res.tag # "Ok" THEN r
            ELSE IF AsU8(r.res.val) = 31
                 THEN ReadChain(r.self, Append(value, AsU8(r.res.val)))
                 ELSE [self |-> r.self, res |-> Ok(Append(value, AsU8(r.res.val)))]
    IN  next(read_data(decoder, 5))

Operation_from(fy, decoder) ==
    LET system(r) ==
            IF r.res.tag # "Ok" THEN r
            ELSE [self |-> r.self,
                  res |-> Ok([kind |-> "System",
                              code |-> Some(OperationCode_from(AsU8(r.res.val))),
                              value |-> <<fy, AsU8(r.res.val)>>])]
        character(r) ==
            IF r.res.tag # "Ok" THEN r
            ELSE [self |-> r.self,
                  res |-> Ok([kind |-> "Character", code |-> None, value |-> r.res.val])]
    IN  IF OperatingCode_from(fy) = "System" THEN system(read_data(decoder, 5))
        ELSE IF fy = 31 THEN character(ReadChain(decoder, <<fy>>))
        ELSE character([self |-> decoder, res |-> Ok(<<fy>>)])

get_op(decoder) ==
    LET from(r) == IF r.res.tag # "Ok" THEN r ELSE Operation_from(AsU8(r.res.val), r.self)
    IN  from(read_fyve(decoder))

\* acc | val << (i * 5) over the reversed fyves, for at most four of them
RECURSIVE FyveValue(_)
FyveValue(value) ==
    IF value = <<>> THEN 0
    ELSE FyveValue(SubSeq(value, 1, Len(value) - 1)) * 32 + value[Len(value)]

\* get_char without values.reverse(): the first fyve is folded lowest
get_char_unreversed(self, checks) ==
    LET values == [i \in 1..Len(self.value) |-> self.value[Len(self.value) + 1 - i]]
    IN  IF checks /\ (Len(values) - 1) * 5 >= 32 THEN Panic
        ELSE IF Len(values) <= 4 /\ FyveValue(values) \in DOMAIN Client_CHARS
             THEN Ok(Client_CHARS[FyveValue(values)])
             ELSE Err(Error(400, "Invalid character", "BadRequest"))

\* A shift by 32 bits or more panics where overflow is checked.  With five
\* fyves or more the first ones are 0x1f, so a bit from 20 up is set in the
\* folded value and CHARS, whose keys are below 2^20, does not hold it.
get_char(self, checks) ==
    IF checks /\ (Len(self.value) - 1) * 5 >= 32 THEN Panic
    ELSE IF Len(self.value) <= 4 /\ FyveValue(self.value) \in DOMAIN Client_CHARS
         THEN Ok(Client_CHARS[FyveValue(self.value)])
         ELSE Err(Error(400, "Invalid character", "BadRequest"))

\* loop { read_data(8); stop at the byte 0; push }
RECURSIVE ReadUntilZero(_, _)
ReadUntilZero(decoder, bytes) ==
    LET next(r) ==
            IF r.res.tag # "Ok" THEN r
            ELSE IF AsU8(r.res.val) = 0 THEN [self |-> r.self, res |-> Ok(bytes)]
            ELSE ReadUntilZero(r.self, Append(bytes, AsU8(r.res.val)))
    IN  next(read_data(decoder, 8))

\* client/versions/v1/r0x0004.rs
Client_FullFyveResponse_new(decoder) ==
    [decoder |-> decoder, filename |-> <<>>, content |-> <<>>]

\* the second loop of decode, limit being (frame.data_size + 56).into()
RECURSIVE ReadContent(_, _, _, _)
ReadContent(decoder, limit, content, checks) ==
    LET pushed(d, char) ==
            IF char.tag # "Ok" THEN [self |-> d, content |-> content, res |-> char]
            ELSE ReadContent(d, limit, Append(content, char.val), checks)
        got(op) ==
            IF op.res.tag # "Ok" THEN [self |-> op.self, content |-> content, res |-> op.res]
            ELSE IF op.res.val.kind = "Character"
            THEN pushed(op.self, get_char(op.res.val, checks))
            ELSE [self |-> op.self, content |-> content,
                  res |-> Err(Error(400, "Invalid operation", "BadRequest"))]
    IN  IF BLe(limit, decoder.position)
        THEN [self |-> decoder, content |-> content, res |-> Ok("unit")]
        ELSE got(get_op(decoder))

\* checks: the build checks arithmetic overflow, as debug builds do
Client_FullFyveResponse_decode(self, frame, checks) ==
    LET out(decoder, filename, content, res) ==
            [self |-> [self EXCEPT !.decoder = decoder, !.filename = filename,
                                   !.content = content],
             res |-> res]
        read(filename, c) ==
            out(c.self, filename, IF c.res.tag = "Ok" THEN c.content ELSE <<>>, c.res)
        named(r) ==
            IF r.res.tag # "Ok" THEN out(r.self, <<>>, <<>>, r.res)
            ELSE IF ~IsUtf8(r.res.val) THEN out(r.self, <<>>, <<>>, Panic)
            ELSE IF frame.data_size + 56 >= Base
            THEN IF checks THEN out(r.self, r.res.val, <<>>, Panic)
                 ELSE read(r.res.val,
                           ReadContent(r.self, B(frame.data_size + 56 - Base), <<>>, checks))
            ELSE read(r.res.val, ReadContent(r.self, B(frame.data_size + 56), <<>>, checks))
    IN  named(ReadUntilZero(self.decoder, <<>>))

(***************************************************************************)
(* client/versions/v1/r0x0001.rs.  An HtmlTag is [name, attributes, data]: *)
(* attributes maps names to values, data holds [kind |-> "Text", text] and *)
(* [kind |-> "Child", tag].                                                *)
(***************************************************************************)
HtmlTag_new(name) == [name |-> name, attributes |-> <<>>, data |-> <<>>]

HtmlTag_add_attribute(self, name, value) ==
    [self EXCEPT !.attributes = (name :> value) @@ @]

Text(text) == [kind |-> "Text", text |-> text]

Child(tag) == [kind |-> "Child", tag |-> tag]

Client_HtmlFileResponse_new(decoder) ==
    [decoder |-> decoder, name |-> <<>>, parent |-> HtmlTag_new(<<>>)]

read_utf8_chain(decoder, length) ==
    LET read(r) ==
            IF r.res.tag # "Ok" THEN r
            ELSE IF IsUtf8(r.res.val) THEN r
            ELSE [self |-> r.self, res |-> Err(Error(401, "Invalid UTF-8", "BadRequest"))]
    IN  read(ReadBytes(decoder, length))

\* The locals of decode and the decoder, while the loop runs: res is Ok
\* until an error is returned or a panic unwinds.
Locals(decoder, parent) ==
    [decoder |-> decoder, res |-> Ok("unit"),
     is_in_tag |-> FALSE, is_in_attributes |-> FALSE, entered_in_attributes |-> FALSE,
     entered_in_data |-> FALSE, is_in_data |-> FALSE,
     text |-> <<>>, attribute_name |-> <<>>, tag_name |-> <<>>,
     tags_controlled |-> <<parent>>]

Running(l, step(_)) == IF l.res.tag # "Ok" THEN l ELSE step(l)

\* tags_controlled.get_mut(0).unwrap(), then change(tag)
WithFirstTag(l, change(_)) ==
    IF l.tags_controlled = <<>> THEN [l EXCEPT !.res = Panic]
    ELSE [l EXCEPT !.tags_controlled[1] = change(@)]

\* a tag named tag_name becomes a child of the first tag and the first tag
OpenTag(l) ==
    LET pushed(c) == [c EXCEPT !.tags_controlled = <<HtmlTag_new(l.tag_name)>> \o @]
    IN  Running(WithFirstTag(l, LAMBDA tag :
                                    [tag EXCEPT !.data = Append(@, Child(HtmlTag_new(l.tag_name)))]),
                pushed)

\* match op_code.code
OnCode(l, code) ==
    LET chained(r) ==
            IF r.res.tag # "Ok" THEN [l EXCEPT !.decoder = r.self, !.res = r.res]
            ELSE [l EXCEPT !.decoder = r.self, !.text = r.res.val]
        sized(r) ==
            IF r.res.tag # "Ok" THEN [l EXCEPT !.decoder = r.self, !.res = r.res]
            ELSE chained(read_utf8_chain(r.self, BInt(r.res.val)))
        flags(tag, attributes, data) ==
            [l EXCEPT !.is_in_tag = tag, !.is_in_attributes = attributes, !.is_in_data = data]
    IN  CASE code = "StartOfTag" -> flags(TRUE, FALSE, FALSE)
          [] code = "StartOfAttributes" -> flags(FALSE, TRUE, FALSE)
          [] code = "StartOfData" -> flags(FALSE, FALSE, TRUE)
          [] code = "EndOfData" -> flags(FALSE, FALSE, FALSE)
          [] code = "Utf8Chain" -> sized(read_data(l.decoder, 15))
          [] OTHER -> [l EXCEPT !.res = Err(Error(400, "Unknown operation code", "BadRequest"))]

\* if is_in_tag { text = String::new() }
ClearText(l) == IF l.is_in_tag THEN [l EXCEPT !.text = <<>>] ELSE l

\* if is_in_attributes && !text.is_empty() {..} else if .. && !entered_in_attributes {..}
OnAttributes(l) ==
    LET named(c) == [c EXCEPT !.attribute_name = <<>>, !.text = <<>>]
        entered(c) == [c EXCEPT !.entered_in_attributes = TRUE]
    IN  IF l.is_in_attributes /\ l.text # <<>>
        THEN Running(WithFirstTag(l, LAMBDA tag :
                                         HtmlTag_add_attribute(tag, l.attribute_name, l.text)),
                     named)
        ELSE IF l.is_in_attributes /\ l.text = <<>> /\ ~l.entered_in_attributes
        THEN Running(OpenTag(l), entered)
        ELSE l

\* if is_in_data && !text.is_empty() {..}
OnText(l) ==
    LET entered(c) == [c EXCEPT !.entered_in_data = TRUE]
    IN  IF l.is_in_data /\ l.text # <<>>
        THEN Running(WithFirstTag(l, LAMBDA tag : [tag EXCEPT !.data = Append(@, Text(l.text))]),
                     entered)
        ELSE l

\* if is_in_data && !entered_in_attributes && !entered_in_data {..}
\* else if !is_in_data {..}
OnData(l) ==
    LET entered(c) == [c EXCEPT !.entered_in_data = TRUE]
    IN  IF l.is_in_data /\ ~l.entered_in_attributes /\ ~l.entered_in_data
        THEN Running(OpenTag(l), entered)
        ELSE IF ~l.is_in_data THEN [l EXCEPT !.entered_in_data = FALSE]
        ELSE l

\* if is_in_data && entered_in_attributes {..}
LeaveAttributes(l) ==
    IF l.is_in_data /\ l.entered_in_attributes
    THEN [l EXCEPT !.entered_in_attributes = FALSE]
    ELSE l

\* if !is_in_tag && !is_in_attributes && !is_in_data {..}
OnEnd(l) ==
    IF ~l.is_in_tag /\ ~l.is_in_attributes /\ ~l.is_in_data
    THEN [l EXCEPT !.tag_name = <<>>, !.attribute_name = <<>>, !.is_in_data = FALSE,
                   !.tags_controlled = IF @ = <<>> THEN @ ELSE Tail(@)]
    ELSE l

\* if op_code.kind == OperatingCode::System {..}
OnSystem(l, code) ==
    Running(Running(Running(Running(Running(Running(OnCode(l, code), ClearText),
                                            OnAttributes),
                                    OnText),
                            OnData),
                    LeaveAttributes),
            OnEnd)

\* if op_code.kind == OperatingCode::Character {..}
OnCharacter(l, char) ==
    IF char.tag # "Ok" THEN [l EXCEPT !.res = char]
    ELSE [l EXCEPT !.tag_name = IF l.is_in_tag THEN Append(@, char.val) ELSE @,
                   !.attribute_name = IF l.is_in_attributes THEN Append(@, char.val) ELSE @]

\* one turn of the second loop of decode, after the test of the position
ReadStep(l, checks) ==
    LET got(op) ==
            IF op.res.tag # "Ok" THEN [l EXCEPT !.decoder = op.self, !.res = op.res]
            ELSE IF op.res.val.kind = "System"
            THEN OnSystem([l EXCEPT !.decoder = op.self], op.res.val.code.val)
            ELSE OnCharacter([l EXCEPT !.decoder = op.self], get_char(op.res.val, checks))
    IN  got(get_op(l.decoder))

\* the second loop of decode, limit being frame.data_size.into()
RECURSIVE ReadTags(_, _, _)
ReadTags(l, limit, checks) ==
    IF l.res.tag # "Ok" \/ BLe(limit, l.decoder.position) THEN l
    ELSE ReadTags(ReadStep(l, checks), limit, checks)

\* the operations the loop reads, each with the character it stands for,
\* the length of tags_controlled before and after its turn, the name of the
\* first tag after it, and with how the turn ended; for a Utf8Chain also
\* the text it read, whether is_in_attributes was set, and the attributes of
\* the first tag before and after the turn; and the position of the decoder
\* before and after the turn
RECURSIVE StackSteps(_, _, _)
StackSteps(l, limit, checks) ==
    LET code(op) ==
            IF op.res.tag # "Ok" THEN "none"
            ELSE IF op.res.val.kind = "System" THEN op.res.val.code.val
            ELSE "Character"
        char(op) ==
            IF code(op) = "Character" THEN get_char(op.res.val, checks) ELSE None
        text(op) ==
            IF code(op) = "Utf8Chain"
            THEN OnCode([l EXCEPT !.decoder = op.self], "Utf8Chain").text ELSE <<>>
        attributes(c) ==
            IF c.tags_controlled = <<>> THEN None ELSE Some(c.tags_controlled[1].attributes)
        turn(next) ==
            <<[code |-> code(get_op(l.decoder)), char |-> char(get_op(l.decoder)),
               before |-> Len(l.tags_controlled), after |-> Len(next.tags_controlled),
               first |-> IF next.tags_controlled = <<>> THEN None
                         ELSE Some(next.tags_controlled[1].name),
               text |-> text(get_op(l.decoder)), in_attributes |-> l.is_in_attributes,
               attributes_before |-> attributes(l), attributes |-> attributes(next),
               position_before |-> l.decoder.position, position |-> next.decoder.position,
               res |-> next.res]>>
            \o StackSteps(next, limit, checks)
    IN  IF l.res.tag # "Ok" \/ BLe(limit, l.decoder.position) THEN <<>>
        ELSE turn(ReadStep(l, checks))

Client_HtmlFileResponse_decode(self, frame, checks) ==
    LET done(name, l) ==
            IF l.res.tag # "Ok"
            THEN [self |-> [self EXCEPT !.decoder = l.decoder, !.name = name], res |-> l.res]
            ELSE IF l.tags_controlled = <<>>
            THEN [self |-> [self EXCEPT !.decoder = l.decoder, !.name = name], res |-> Panic]
            ELSE [self |-> [self EXCEPT !.decoder = l.decoder, !.name = name,
                                        !.parent = l.tags_controlled[1]],
                  res |-> Ok("unit")]
        named(r) ==
            IF r.res.tag # "Ok" THEN [self |-> [self EXCEPT !.decoder = r.self], res |-> r.res]
            ELSE IF ~IsUtf8(r.res.val)
            THEN [self |-> [self EXCEPT !.decoder = r.self],
                  res |-> Err(Error(400, "Invalid UTF-8", "BadRequest"))]
            ELSE done(r.res.val,
                      ReadTags(Locals(r.self, self.parent), B(frame.data_size), checks))
    IN  named(ReadUntilZero(self.decoder, <<>>))

\* client/versions/v1/r0x0002.rs
Client_ErrorResponse_new(decoder) == [decoder |-> decoder, code |-> 0, message |-> <<>>]

\* checks: the build checks arithmetic overflow, as debug builds do;
\* frame.data_size - 24 is a subtraction of u16
Client_ErrorResponse_decode(self, frame, checks) ==
    LET texted(coded, r) ==
            IF r.res.tag # "Ok" THEN [self |-> [coded EXCEPT !.decoder = r.self], res |-> r.res]
            ELSE IF ~IsUtf8(r.res.val)
            THEN [self |-> [coded EXCEPT !.decoder = r.self], res |-> Panic]
            ELSE [self |-> [coded EXCEPT !.decoder = r.self, !.message = r.res.val],
                  res |-> Ok("unit")]
        skipped(coded) ==
            IF frame.data_size >= 24
            THEN texted(coded, ReadBytes(coded.decoder, (frame.data_size - 24) \div 8))
            ELSE IF checks THEN [self |-> coded, res |-> Panic]
            ELSE texted(coded, ReadBytes(coded.decoder, (frame.data_size + Base - 24) \div 8))
        coded(r) ==
            IF r.res.tag # "Ok" THEN [self |-> [self EXCEPT !.decoder = r.self], res |-> r.res]
            ELSE skipped([self EXCEPT !.code = AsU16(r.res.val),
                                      !.decoder = [r.self EXCEPT !.position = BAdd(@, B(8))]])
    IN  coded(read_data(self.decoder, 16))

Letters == {97, 46, 84}

LongName(len) == [i \in 1..len |-> 0]

Names ==
    {<<116, 101, 115, 116>>, <<195, 169>>, LongName(8192), LongName(8193)}
    \cup {<<a>> : a \in Letters} \cup {<<a, b>> : a, b \in Letters}

\* a trip of an event: what the sender got from encode, what the receiver
\* got from the frame decoder, and from the decoder of the event when the
\* frame arrived
Trip(op, input, sent, order, decode(_)) ==
    [op |-> op, input |-> input, sent |-> sent] @@
    (IF sent.tag # "Ok" THEN [frame |-> None, decoded |-> None]
     ELSE LET received == Received(order, sent.val)
          IN  [frame |-> received.res,
               decoded |-> IF received.res.tag # "Ok" THEN None
                           ELSE decode(received)])

\* tests/t0x0000_event_decoding_full_track.rs, for any name
SendComponentNeedsRequest(name) ==
    /\ trip = NoCall
    /\ trip' = Trip("ComponentNeedsRequest", name,
                    Sent(Client_ComponentNeedsRequest_new(name),
                         Client_ComponentNeedsRequest_encode), Msb0,
                    LAMBDA received :
                        ComponentNeedsRequest_decode(
                            ComponentNeedsRequest_new(received.self.decoder),
                            received.res.val))
    /\ UNCHANGED <<registry_lsb, once, log>>
    /\ UNCHANGED bitVars
    /\ UNCHANGED frameVars
    /\ UNCHANGED serverVars
    /\ UNCHANGED deviceVars


\* the InteractionRequests that are sent
RequestIds == {<<B(0), B(0)>>, <<B(1), <<Base - 1, Base - 1>>>>, <<B(258), B(772)>>}

ShortNames == {<<116, 101, 115, 116>>, <<84>>}

Tokens == {None, Some(<<116, 107>>)}

ObjectIds == {None, Some(0), Some(-5), Some(2147483647)}

Params == {None, Some("json!({})")}

\* the InteractionResponses that are sent
Responses == {None} \cup {Some(value) : value \in JsonValues}

InteractionRequests ==
    [request_id : RequestIds, function_name : ShortNames, parent_name : ShortNames,
     object_id : ObjectIds, params : Params, token : Tokens]

\* tests/t0x0005_event_decoding_full_track.rs, for any request
SendInteractionRequest(r) ==
    /\ trip = NoCall
    /\ trip' = Trip("InteractionRequest", r,
                    Sent(Client_InteractionRequest_new(
                             r.request_id, r.function_name, r.parent_name,
                             r.object_id, r.params, r.token),
                         Client_InteractionRequest_encode), Msb0,
                    LAMBDA received :
                        InteractionRequest_decode(
                            InteractionRequest_new(received.self.decoder)))
    /\ UNCHANGED <<registry_lsb, once, log>>
    /\ UNCHANGED bitVars
    /\ UNCHANGED frameVars
    /\ UNCHANGED serverVars
    /\ UNCHANGED deviceVars

\* tests/t0x0006_event_decoding_full_track.rs, for any response; the decoder
\* of the client takes a BitDecoder<Lsb0>
SendInteractionResponse(request_id, response) ==
    /\ trip = NoCall
    /\ trip' = Trip("InteractionResponse",
                    [request_id |-> request_id, response |-> response],
                    Sent(InteractionResponse_new(request_id, response),
                         InteractionResponse_encode), Lsb0,
                    LAMBDA received :
                        Client_InteractionResponse_decode(
                            Client_InteractionResponse_new(received.self.decoder)))
    /\ UNCHANGED <<registry_lsb, once, log>>
    /\ UNCHANGED bitVars
    /\ UNCHANGED frameVars
    /\ UNCHANGED serverVars
    /\ UNCHANGED deviceVars

\* characters whose fyve codes take 5, 5, 10, 15 and 20 bits, and the line
\* feed, which the alphabet does not hold
FyveLetters == {32, 116, 48, 63, 36, 10}

\* with the name "a" the payloads of the long contents take 2^16 bits and
\* 2^16 - 45 bits
LongContents == {<< <<63, 4368>> >>, << <<63, 4365>> >>}

Contents ==
    {<<>>} \cup {<< <<c, 1>> >> : c \in FyveLetters}
           \cup {<< <<c, 1>>, <<d, 1>> >> : c, d \in FyveLetters \ {10}}

Files == {Err("open"), Err("read")} \cup {Ok(content) : content \in Contents}

FyvePaths == {"main.fyve", "a", ".."}

\* every path with every short file, and the file "a" with the long contents
FyveFiles ==
    [path : FyvePaths, file : Files]
        \cup {[path |-> "a", file |-> Ok(content)] : content \in LongContents}

\* a FullFyveResponse for a file of the server goes to the client
SendFullFyveResponse(path, file, checks) ==
    /\ trip = NoCall
    /\ trip' = Trip("FullFyveResponse", [path |-> path, file |-> file, checks |-> checks],
                    Sent([FullFyveResponse_new(path) EXCEPT !.file = file],
                         FullFyveResponse_encode), Msb0,
                    LAMBDA received :
                        Client_FullFyveResponse_decode(
                            Client_FullFyveResponse_new(received.self.decoder),
                            received.res.val, checks))
    /\ UNCHANGED <<registry_lsb, once, log>>
    /\ UNCHANGED bitVars
    /\ UNCHANGED frameVars
    /\ UNCHANGED serverVars
    /\ UNCHANGED deviceVars

Element(name, attrs, children) ==
    [kind |-> "Element", name |-> name, attrs |-> attrs, children |-> children]

TextNode(text) == [kind |-> "Text", text |-> text]

\* the nodes Test, x, a blank, a comment, <p>Test</p>, <a id="x">y</a> and
\* <pre>x</pre>
Nodes ==
    {TextNode(<<84, 101, 115, 116>>), TextNode(<<120>>), TextNode(<<32>>), [kind |-> "Comment"],
     Element(<<112>>, <<>>, <<TextNode(<<84, 101, 115, 116>>)>>),
     Element(<<97>>, << <<<<105, 100>>, <<120>>>> >>, <<TextNode(<<121>>)>>),
     Element(<<112, 114, 101>>, <<>>, <<TextNode(<<120>>)>>)}

\* parse_fragment puts the nodes of the file in one element html
Html(children) == <<Element(<<104, 116, 109, 108>>, <<>>, children)>>

\* <p>Test</p>x<p>Test</p> and <p><b>Test</b>x</p>y<p>Test</p>: texts that
\* follow an element
TextsAfterElements ==
    {<<Element(<<112>>, <<>>, <<TextNode(<<84, 101, 115, 116>>)>>), TextNode(<<120>>),
       Element(<<112>>, <<>>, <<TextNode(<<84, 101, 115, 116>>)>>)>>,
     <<Element(<<112>>, <<>>,
               <<Element(<<98>>, <<>>, <<TextNode(<<84, 101, 115, 116>>)>>),
                 TextNode(<<120>>)>>),
       TextNode(<<121>>),
       Element(<<112>>, <<>>, <<TextNode(<<84, 101, 115, 116>>)>>)>>}

\* <div hidden><a id="x">y</a></div> and <a id="x" href="y">z</a>: an
\* attribute without a value before an element with one, and two attributes
AttributeDocuments ==
    {<<Element(<<100, 105, 118>>, << <<<<104, 105, 100, 100, 101, 110>>, <<>>>> >>,
               <<Element(<<97>>, << <<<<105, 100>>, <<120>>>> >>, <<TextNode(<<121>>)>>)>>)>>,
     <<Element(<<97>>, << <<<<105, 100>>, <<120>>>>, <<<<104, 114, 101, 102>>, <<121>>>> >>,
               <<TextNode(<<122>>)>>)>>}

\* the files of at most one node, and the longer ones
ShortDocuments == {Html(<<>>)} \cup {Html(<<n>>) : n \in Nodes}

LongDocuments ==
    {Html(<<n, m>>) : n, m \in Nodes}
    \cup {Html(nodes) : nodes \in TextsAfterElements \cup AttributeDocuments}

Documents == ShortDocuments \cup LongDocuments

HtmlPaths == {"src/tests/res/test.html", "index.html", ".."}

\* the files that are served: the short ones and the unreadable ones under
\* every path, the longer ones as index.html
ServedHtml ==
    {[path |-> path, file |-> file] :
         path \in HtmlPaths,
         file \in {Err("open"), Err("read"), Err("minify")} \cup {Ok(d) : d \in ShortDocuments}}
    \cup {[path |-> "index.html", file |-> Ok(d)] : d \in LongDocuments}

\* the names the parent of the decoder has before decode: the one of new()
\* and the one the test sets
ParentNames == {<<>>, <<104, 116, 109, 108>>}

\* tests/t0x0001_event_decoding_full_track.rs, for any file
SendHtmlFileResponse(path, file, parent, checks) ==
    /\ trip = NoCall
    /\ trip' = Trip("HtmlFileResponse",
                    [path |-> path, file |-> file, parent |-> parent, checks |-> checks],
                    Sent([HtmlFileResponse_new(path) EXCEPT !.file = file],
                         HtmlFileResponse_encode), Msb0,
                    LAMBDA received :
                        Client_HtmlFileResponse_decode(
                            [Client_HtmlFileResponse_new(received.self.decoder)
                                EXCEPT !.parent = HtmlTag_new(parent)],
                            received.res.val, checks))
    /\ UNCHANGED <<registry_lsb, once, log>>
    /\ UNCHANGED bitVars
    /\ UNCHANGED frameVars
    /\ UNCHANGED serverVars
    /\ UNCHANGED deviceVars

\* server/versions/v1/c0x0003.rs: for file in &self.files { 0x00, file }
RECURSIVE AddFiles(_, _)
AddFiles(encoder, files) ==
    IF files = <<>> THEN [self |-> encoder, res |-> Ok("self")]
    ELSE Then(Then(add_data(encoder, B(0), 8), LAMBDA e : add_bytes(e, files[1])),
              LAMBDA e : AddFiles(e, Tail(files)))

\* component_name, title and files are held as their UTF-8 octets
ComponentNeedsResponse_encode(self) ==
    LET out(a) == [self |-> [self EXCEPT !.encoder = a.self],
                   res |-> IF a.res.tag # "Ok" THEN a.res ELSE Ok("unit")]
        titled(e) ==
            IF self.title = None THEN [self |-> e, res |-> Ok("self")]
            ELSE Then(add_data(e, B(0), 8), LAMBDA t : add_bytes(t, self.title.val))
        filed(e) ==
            IF Len(self.files) > 0 THEN AddFiles(e, self.files)
            ELSE add_data(e, B(1), 8)
    IN  out(Then(Then(add_bytes(self.encoder, self.component_name), titled), filed))

\* client/versions/v1/r0x0003.rs
Client_ComponentNeedsResponse_new(decoder) ==
    [decoder |-> decoder, component_name |-> <<>>, title |-> None, files |-> <<>>]

Client_ComponentNeedsResponse_decode(self, frame) ==
    LET split(d, parts) ==
            [self |-> [self EXCEPT
                           !.decoder = d,
                           !.component_name = Split(parts[1], 1)[1],
                           !.title = IF Len(Split(parts[1], 1)) >= 2
                                     THEN Some(Split(parts[1], 1)[2]) ELSE @,
                           !.files = @ \o Tail(parts)],
             res |-> Ok("unit")]
        read(r) ==
            IF r.res.tag # "Ok" THEN [self |-> [self EXCEPT !.decoder = r.self], res |-> r.res]
            ELSE IF ~IsUtf8(r.res.val)
            THEN [self |-> [self EXCEPT !.decoder = r.self], res |-> Panic]
            ELSE split(r.self, Split(r.res.val, 0))
    IN  read(ReadBytes(self.decoder, frame.data_size \div 8))

\* the titles and the lists of files a listener answers with: no title, an
\* empty one, "T"; no file, "a", "a" and "T.a", an empty name
Titles == {None, Some(<<>>), Some(<<84>>)}

FileLists == {<<>>, << <<97>> >>, << <<97>>, <<84, 46, 97>> >>, << <<>> >>}

ComponentNames == {<<97>>, <<116, 101, 115, 116>>, <<195, 169>>}

\* the server answers a request with a ComponentNeedsResponse and the client
\* decodes it
SendComponentNeedsResponse(name, title, files) ==
    /\ trip = NoCall
    /\ trip' = Trip("ComponentNeedsResponse",
                    [component_name |-> name, title |-> title, files |-> files],
                    Sent(ComponentNeedsResponse_new(name, title, files),
                         ComponentNeedsResponse_encode), Msb0,
                    LAMBDA received :
                        Client_ComponentNeedsResponse_decode(
                            Client_ComponentNeedsResponse_new(received.self.decoder),
                            received.res.val))
    /\ UNCHANGED <<registry_lsb, once, log>>
    /\ UNCHANGED bitVars
    /\ UNCHANGED frameVars
    /\ UNCHANGED serverVars
    /\ UNCHANGED deviceVars

\* Frames of event 0x0002 as bytes of the network: the code 404 alone, with
\* the separator, with the texts "a" and "e acute", with a text that is no
\* UTF-8, half a code, no payload, a size field larger than the payload;
\* and the frames the server encodes for its errors
ErrorFrames ==
    {RawFrame(1, 2, 16, <<1, 148>>), RawFrame(1, 2, 24, <<1, 148, 0>>),
     RawFrame(1, 2, 32, <<1, 148, 0, 97>>), RawFrame(1, 2, 40, <<1, 148, 0, 195, 169>>),
     RawFrame(1, 2, 32, <<1, 148, 0, 255>>), RawFrame(1, 2, 8, <<1>>),
     RawFrame(1, 2, 0, <<>>), RawFrame(1, 2, 40, <<1, 148, 0, 97>>)}

SentErrors ==
    {Error(404, "main.fyve", "NotFound"), Error(8, "Minimum of 8 bits allowed",
                                                "SizeConstraintViolation")}

ErrorWires ==
    {RunsOf(f) : f \in ErrorFrames} \cup {Sent(ErrorResponse_new(e), ErrorResponse_encode).val : e \in SentErrors}

\* Bits given to the fyve reader, as octets: the fyve 00001; 00000 10000
\* (StartOfTag); 14, 20 and 28 one bits followed by zero bits; 32 one bits
FyveStreams ==
    {<<8, 0>>, <<4, 0>>, <<255, 252, 0, 0>>, <<255, 255, 240, 0>>, <<255, 255, 255, 240>>,
     <<255, 255, 255, 255>>}

\* FyveImpl::get_op on a decoder at position 0
ReadOp(bytes) ==
    /\ trip = NoCall
    /\ trip' = [op |-> "get_op", input |-> bytes, sent |-> Ok(RunsOf(bytes)), frame |-> None,
                decoded |-> None, read |-> get_op(BitDecoder_new(Msb0, RunsOf(bytes)))]
    /\ UNCHANGED <<registry_lsb, once, log>>
    /\ UNCHANGED bitVars
    /\ UNCHANGED frameVars
    /\ UNCHANGED serverVars
    /\ UNCHANGED deviceVars

\* Frames of the events 0x0001 and 0x0004 as bytes of the network.  The file
\* name is "a"; the fyves after it are: 00000 00001 (a System operation of
\* unknown code); 11111 00000 (no character); 11111 four times and 00001;
\* 11111 seven times and 00001; 00001 (a space); 00000 10000 (StartOfTag).
\* An 0x0001 frame carries 56 bits more, which its decoder does not read.
HtmlWires ==
    {RunsOf(f) : f \in
        {RawFrame(1, 1, 82, <<97, 0, 0, 64, 0, 0, 0, 0, 0, 0, 0>>),
         RawFrame(1, 1, 82, <<97, 0, 248, 0, 0, 0, 0, 0, 0, 0, 0>>),
         RawFrame(1, 1, 97, <<97, 0, 255, 255, 240, 128, 0, 0, 0, 0, 0, 0, 0>>),
         RawFrame(1, 1, 112, <<97, 0, 255, 255, 255, 255, 225, 0, 0, 0, 0, 0, 0, 0>>),
         RawFrame(1, 1, 77, <<97, 0, 8, 0, 0, 0, 0, 0, 0, 0>>),
         RawFrame(1, 1, 82, <<97, 0, 4, 0, 0, 0, 0, 0, 0, 0, 0>>)}}

FyveWires ==
    {RunsOf(f) : f \in
        {RawFrame(1, 4, 26, <<97, 0, 0, 64>>), RawFrame(1, 4, 26, <<97, 0, 248, 0>>),
         RawFrame(1, 4, 41, <<97, 0, 255, 255, 240, 128>>),
         RawFrame(1, 4, 56, <<97, 0, 255, 255, 255, 255, 225>>),
         RawFrame(1, 4, 21, <<97, 0, 8>>), RawFrame(1, 4, 26, <<97, 0, 4, 0>>)}}

\* the client decodes a frame of event 0x0001 that came from the network
ReceiveHtmlFileResponse(bytes, checks) ==
    /\ trip = NoCall
    /\ trip' = Trip("ReceivedHtml", [bytes |-> bytes, checks |-> checks], Ok(bytes), Msb0,
                    LAMBDA received :
                        Client_HtmlFileResponse_decode(
                            Client_HtmlFileResponse_new(received.self.decoder),
                            received.res.val, checks))
    /\ UNCHANGED <<registry_lsb, once, log>>
    /\ UNCHANGED bitVars
    /\ UNCHANGED frameVars
    /\ UNCHANGED serverVars
    /\ UNCHANGED deviceVars

\* the client decodes a frame of event 0x0004 that came from the network
ReceiveFullFyveResponse(bytes, checks) ==
    /\ trip = NoCall
    /\ trip' = Trip("ReceivedFyve", [bytes |-> bytes, checks |-> checks], Ok(bytes), Msb0,
                    LAMBDA received :
                        Client_FullFyveResponse_decode(
                            Client_FullFyveResponse_new(received.self.decoder),
                            received.res.val, checks))
    /\ UNCHANGED <<registry_lsb, once, log>>
    /\ UNCHANGED bitVars
    /\ UNCHANGED frameVars
    /\ UNCHANGED serverVars
    /\ UNCHANGED deviceVars

\* Payloads of event 0x0005 as octets: the request_id 0 alone (64 bits); then
\* with "\0T", "T", "T\0", "\0" and "T\0T" after it
RequestPayloads ==
    {<<0, 0, 0, 0, 0, 0, 0, 0>> \o rest :
        rest \in {<<>>, <<0, 84>>, <<84>>, <<84, 0>>, <<0>>, <<84, 0, 84>>}}

\* The server decodes an InteractionRequest.  framed: the payload came in a
\* frame and the BitDecoder is the one of the FrameDecoder (server/tcp.rs);
\* otherwise the BitDecoder holds the payload alone.
ReceiveInteractionRequest(payload, framed) ==
    /\ trip = NoCall
    /\ trip' = IF framed
               THEN Trip("ReceivedRequest", [payload |-> payload, framed |-> framed],
                         Ok(RunsOf(RawFrame(1, 5, 8 * Len(payload), payload))), Msb0,
                         LAMBDA received :
                             InteractionRequest_decode(
                                 InteractionRequest_new(received.self.decoder)))
               ELSE [op |-> "ReceivedRequest",
                     input |-> [payload |-> payload, framed |-> framed],
                     sent |-> Ok(RunsOf(payload)), frame |-> None,
                     decoded |-> InteractionRequest_decode(
                                     InteractionRequest_new(
                                         BitDecoder_new(Msb0, RunsOf(payload))))]
    /\ UNCHANGED <<registry_lsb, once, log>>
    /\ UNCHANGED bitVars
    /\ UNCHANGED frameVars
    /\ UNCHANGED serverVars
    /\ UNCHANGED deviceVars

\* the errors the server answers with: the codes 0, 404 and 2^16 - 1, an
\* empty message, short ones, and one of 8192 octets
AnsweredErrors ==
    {Error(code, message, "NotFound") : code \in {0, 404, 65535},
                                        message \in {"", "a", "main.fyve"}}
    \cup {Error(404, "8192 spaces", "NotFound")}

\* the server answers with an ErrorResponse and the client decodes it
SendErrorResponse(error, checks) ==
    /\ trip = NoCall
    /\ trip' = Trip("SentErrorResponse", [error |-> error, checks |-> checks],
                    Sent(ErrorResponse_new(error), ErrorResponse_encode), Msb0,
                    LAMBDA received :
                        Client_ErrorResponse_decode(
                            Client_ErrorResponse_new(received.self.decoder),
                            received.res.val, checks))
    /\ UNCHANGED <<registry_lsb, once, log>>
    /\ UNCHANGED bitVars
    /\ UNCHANGED frameVars
    /\ UNCHANGED serverVars
    /\ UNCHANGED deviceVars

\* the client decodes a frame of event 0x0002 that came from the network
ReceiveErrorResponse(bytes, checks) ==
    /\ trip = NoCall
    /\ trip' = Trip("ErrorResponse", [bytes |-> bytes, checks |-> checks], Ok(bytes), Msb0,
                    LAMBDA received :
                        Client_ErrorResponse_decode(
                            Client_ErrorResponse_new(received.self.decoder),
                            received.res.val, checks))
    /\ UNCHANGED <<registry_lsb, once, log>>
    /\ UNCHANGED bitVars
    /\ UNCHANGED frameVars
    /\ UNCHANGED serverVars
    /\ UNCHANGED deviceVars

\* nothing was sent yet
InitEvents ==
    /\ benc = BitEncoder_new(Lsb0)
    /\ bcall = NoCall
    /\ bres = None
    /\ bdec = None
    /\ dcall = NoCall
    /\ dres = None
    /\ fenc = None
    /\ fcall = NoCall
    /\ fres = None
    /\ wire = None
    /\ fdec = None
    /\ InitServerVars
    /\ InitLibVars

NextEvents ==
    \/ \E bytes \in ErrorWires, checks \in BOOLEAN : ReceiveErrorResponse(bytes, checks)
    \/ \E bytes \in FyveStreams : ReadOp(bytes)
    \/ \E payload \in RequestPayloads, framed \in BOOLEAN :
           ReceiveInteractionRequest(payload, framed)
    \/ \E bytes \in HtmlWires, checks \in BOOLEAN : ReceiveHtmlFileResponse(bytes, checks)
    \/ \E bytes \in FyveWires, checks \in BOOLEAN : ReceiveFullFyveResponse(bytes, checks)
    \/ \E name \in ComponentNames, title \in Titles, files \in FileLists :
           SendComponentNeedsResponse(name, title, files)
    \/ \E name \in Names : SendComponentNeedsRequest(name)
    \/ \E r \in InteractionRequests : SendInteractionRequest(r)
    \/ \E request_id \in RequestIds, response \in Responses :
           SendInteractionResponse(request_id, response)
    \/ \E error \in AnsweredErrors, checks \in BOOLEAN : SendErrorResponse(error, checks)
    \/ \E f \in ServedHtml, parent \in ParentNames, checks \in BOOLEAN :
           SendHtmlFileResponse(f.path, f.file, parent, checks)
    \/ \E f \in FyveFiles, checks \in BOOLEAN :
           SendFullFyveResponse(f.path, f.file, checks)

SpecEvents == InitEvents /\ [][NextEvents]_vars

\* C15: after the trip of a client ComponentNeedsRequest(name) with a
\* non-empty name, the decoder of the server has returned Ok and its
\* requested_component_name is name.
C15_NeedsRequestRoundTrip ==
    (trip.op = "ComponentNeedsRequest" /\ trip.input # <<>>) =>
        /\ trip.sent.tag = "Ok"
        /\ trip.frame.tag = "Ok"
        /\ trip.decoded.res = Ok("unit")
        /\ trip.decoded.self.requested_component_name = trip.input


\* C16: after the trip of a client InteractionRequest with non-empty names,
\* the decoder of the server has returned Ok and holds the six fields that
\* were sent, an absent token, object_id or params being absent.
C16_InteractionRequestRoundTrip ==
    trip.op = "InteractionRequest" =>
        /\ trip.sent.tag = "Ok"
        /\ trip.frame.tag = "Ok"
        /\ trip.decoded.res = Ok("unit")
        /\ trip.decoded.self.request_id = trip.input.request_id
        /\ trip.decoded.self.function_name = trip.input.function_name
        /\ trip.decoded.self.parent_name = trip.input.parent_name
        /\ trip.decoded.self.token = trip.input.token
        /\ trip.decoded.self.object_id = trip.input.object_id
        /\ trip.decoded.self.params = trip.input.params


\* C17: after the trip of a server InteractionResponse(request_id, Some(v)),
\* the decoder of the client has returned Ok and holds the same request_id
\* and the response v.
C17_InteractionResponseRoundTrip ==
    (trip.op = "InteractionResponse" /\ trip.input.response # None) =>
        /\ trip.sent.tag = "Ok"
        /\ trip.frame.tag = "Ok"
        /\ trip.decoded.res = Ok("unit")
        /\ trip.decoded.self.request_id = trip.input.request_id
        /\ trip.decoded.self.response = trip.input.response

\* C18: after the trip of a server FullFyveResponse for a file whose path
\* has a name and whose content holds characters of the fyve alphabet only,
\* the decoder of the client has returned Ok and holds the bytes of the
\* file name and the characters of the content, in order.
C18_FullFyveRoundTrip ==
    (/\ trip.op = "FullFyveResponse"
     /\ file_name(trip.input.path) # None
     /\ trip.input.file.tag = "Ok"
     /\ \A i \in DOMAIN trip.input.file.val :
            trip.input.file.val[i][1] \in DOMAIN Server_CHARS) =>
        /\ trip.sent.tag = "Ok"
        /\ trip.frame.tag = "Ok"
        /\ trip.decoded.res = Ok("unit")
        /\ trip.decoded.self.filename = as_bytes(file_name(trip.input.path).val)
        /\ trip.decoded.self.content = Characters(trip.input.file.val)

\* the texts the server emits for the nodes below the element named above
\* (None below the root), each with the name of the element it is emitted in
RECURSIVE EmittedTexts(_, _)
EmittedTexts(nodes, above) ==
    IF nodes = <<>> THEN <<>>
    ELSE (CASE nodes[1].kind = "Element" ->
                 EmittedTexts(nodes[1].children, Some(nodes[1].name))
            [] nodes[1].kind = "Text" ->
                 IF IsBlank(nodes[1].text) \/ above = None \/ above = Some(<<112, 114, 101>>)
                 THEN <<>>
                 ELSE << <<above.val, nodes[1].text>> >>
            [] OTHER -> <<>>)
         \o EmittedTexts(Tail(nodes), above)

\* the Text children of a tag and of its descendants, each with the name of
\* the tag that holds it, in the order of the tree
RECURSIVE TreeTexts(_, _)
TreeTexts(tag, from) ==
    IF from > Len(tag.data) THEN <<>>
    ELSE (IF tag.data[from].kind = "Text" THEN << <<tag.name, tag.data[from].text>> >>
          ELSE TreeTexts(tag.data[from].tag, 1))
         \o TreeTexts(tag, from + 1)

\* C19: after the trip of a server HtmlFileResponse for a parsed file, the
\* decoder of the client has returned Ok and the texts of the tree in parent
\* are the emitted texts, each once, in order and in the element that was
\* open; for <html>Test</html> parent is html, without attributes, holding
\* Text("Test") only.
C19_HtmlTextsInTree ==
    (/\ trip.op = "HtmlFileResponse"
     /\ file_name(trip.input.path) # None
     /\ trip.input.file.tag = "Ok") =>
        /\ trip.sent.tag = "Ok"
        /\ trip.frame.tag = "Ok"
        /\ trip.decoded.res = Ok("unit")
        /\ TreeTexts(trip.decoded.self.parent, 1) = EmittedTexts(trip.input.file.val, None)
        /\ trip.input.file.val = Html(<<TextNode(<<84, 101, 115, 116>>)>>) =>
               trip.decoded.self.parent =
                   [name |-> <<104, 116, 109, 108>>, attributes |-> <<>>,
                    data |-> <<Text(<<84, 101, 115, 116>>)>>]

\* the turns of the loop of the HTML decoder in the trip made
HtmlSteps ==
    LET named(r) ==
            IF r.res.tag # "Ok" \/ ~IsUtf8(r.res.val) THEN <<>>
            ELSE StackSteps(Locals(r.self, HtmlTag_new(trip.input.parent)),
                            B(trip.frame.val.data_size), trip.input.checks)
    IN  named(ReadUntilZero(Received(Msb0, trip.sent.val).self.decoder, <<>>))

\* before turn i a StartOfTag was read and no StartOfAttributes or
\* StartOfData since
TagPending(steps, i) ==
    \E j \in 1..(i - 1) :
        /\ steps[j].code = "StartOfTag"
        /\ \A k \in (j + 1)..(i - 1) : steps[k].code \notin {"StartOfAttributes", "StartOfData"}

\* the number of turns among the first i that read code
CountCode(steps, i, code) == Cardinality({j \in 1..i : steps[j].code = code})

\* every turn changes the length of the stack as its operation says
StackFollowsTags(steps) ==
    \A i \in DOMAIN steps :
        steps[i].after =
            steps[i].before
            + (IF steps[i].code \in {"StartOfAttributes", "StartOfData"} /\ TagPending(steps, i)
               THEN 1 ELSE 0)
            - (IF steps[i].code = "EndOfData" THEN 1 ELSE 0)

\* EndOfData never outnumbers StartOfTag
TagsBalanced(steps) ==
    \A i \in DOMAIN steps :
        CountCode(steps, i, "EndOfData") <= CountCode(steps, i, "StartOfTag")

\* the stack is never empty
StackHoldsRoot(steps) == \A i \in DOMAIN steps : steps[i].after >= 1

\* C25: in the HTML decoder the stack of open tags gains one entry at the
\* first StartOfAttributes or StartOfData that follows a StartOfTag, loses
\* one entry at each EndOfData and keeps its length on every other
\* operation; when EndOfData never outnumbers StartOfTag the stack is never
\* empty and the final read of its first entry succeeds.
C25_StackPerTag ==
    (trip.op = "HtmlFileResponse" /\ trip.frame.tag = "Ok") =>
        /\ StackFollowsTags(HtmlSteps)
        /\ TagsBalanced(HtmlSteps) =>
               StackHoldsRoot(HtmlSteps) /\ trip.decoded.res # Panic

\* the turn of the last StartOfTag before turn i (0 if there is none)
LastStartOfTag(steps, i) ==
    IF \E j \in 1..(i - 1) : steps[j].code = "StartOfTag"
    THEN CHOOSE j \in 1..(i - 1) :
             /\ steps[j].code = "StartOfTag"
             /\ \A k \in (j + 1)..(i - 1) : steps[k].code # "StartOfTag"
    ELSE 0

\* the characters read in turns from + 1 .. to - 1
RECURSIVE CharsBetween(_, _, _)
CharsBetween(steps, from, to) ==
    IF from + 1 >= to THEN <<>>
    ELSE (IF steps[from + 1].code = "Character" /\ steps[from + 1].char.tag = "Ok"
          THEN <<steps[from + 1].char.val>> ELSE <<>>)
         \o CharsBetween(steps, from + 1, to)

\* every tag that a turn opens is named by the characters read since the
\* last StartOfTag
NamedAsSent(steps) ==
    \A i \in DOMAIN steps :
        steps[i].after = steps[i].before + 1 =>
            steps[i].first = Some(CharsBetween(steps, LastStartOfTag(steps, i), i))

\* C26: the name of each element the HTML decoder reconstructs is exactly
\* the characters sent between the StartOfTag of that element and the
\* StartOfAttributes or StartOfData that follows it, for nested elements
\* and for siblings.
C26_ElementNames ==
    (trip.op = "HtmlFileResponse" /\ trip.frame.tag = "Ok") => NamedAsSent(HtmlSteps)

\* C27: the client's ComponentNeedsResponse decoder, given the frame the
\* server encodes for a component name, an optional title and a list of
\* file names (no octet 0x00 or 0x01 in any of them), holds that name, that
\* title (None when none was given) and those files in their order.
C27_NeedsResponseRoundTrip ==
    trip.op = "ComponentNeedsResponse" =>
        /\ trip.sent.tag = "Ok"
        /\ trip.frame.tag = "Ok"
        /\ trip.decoded.res = Ok("unit")
        /\ trip.decoded.self.component_name = trip.input.component_name
        /\ trip.decoded.self.title = trip.input.title
        /\ trip.decoded.self.files = trip.input.files

\* C28: the client's ErrorResponse decoder, given the frame the server
\* encodes for an error with a code below 2^16 and a UTF-8 message (the
\* empty one included), holds that code and that message.
C28_ErrorResponseRoundTrip ==
    trip.op = "SentErrorResponse" =>
        /\ trip.sent.tag = "Ok"
        /\ trip.frame.tag = "Ok"
        /\ trip.decoded.res = Ok("unit")
        /\ trip.decoded.self.code = trip.input.error.code
        /\ trip.decoded.self.message = as_bytes(trip.input.error.message)

\* C29: a call of get_op that returns a Character operation has read at
\* most 20 bits, the first fyve and at most three fyves after 0b11111.
C29_CharacterWithin20Bits ==
    (/\ trip.op = "get_op"
     /\ trip.read.res.tag = "Ok"
     /\ trip.read.res.val.kind = "Character") =>
        /\ BLe(trip.read.self.position, B(20))
        /\ Len(trip.read.res.val.value) <= 4

\* the octets of the message in the ErrorResponse frame that was received
ReceivedMessage ==
    ReadBytes([Received(Msb0, trip.input.bytes).self.decoder EXCEPT !.position = B(80)],
              (trip.frame.val.data_size - 24) \div 8).res

\* C30: where an event decoder expects text (here the message of an
\* ErrorResponse), octets that are no UTF-8 make decode return an Error of
\* kind BadRequest with the code 400.
C30_InvalidUtf8Is400 ==
    (/\ trip.op = "ErrorResponse"
     /\ trip.frame.tag = "Ok"
     /\ trip.frame.val.data_size >= 24
     /\ ReceivedMessage.tag = "Ok"
     /\ ~IsUtf8(ReceivedMessage.val)) =>
        /\ trip.decoded.res.tag = "Err"
        /\ trip.decoded.res.err.code = 400
        /\ trip.decoded.res.err.kind = "BadRequest"

\* the first operation after the file name "a" in the frame received
FirstOperation ==
    get_op([Received(Msb0, trip.input.bytes).self.decoder EXCEPT !.position = B(72)]).res

\* a System operation of no known code, a System operation in the content of
\* a FullFyveResponse, or a Character that the table does not hold
IsInvalidOperation(op, in_content) ==
    IF op.kind = "System" THEN in_content \/ op.code.val = "Unknown"
    ELSE Len(op.value) > 4 \/ FyveValue(op.value) \notin DOMAIN Client_CHARS

IsBadRequest(res) ==
    res.tag = "Err" /\ res.err.kind = "BadRequest" /\ res.err.code = 400

\* C31: a System operation whose code is none of 0x00, 0x10, 0x11, 0x18,
\* 0x19, a character code that the fyve table does not hold, and a System
\* operation in the content of a FullFyveResponse each make decode return
\* an Error of kind BadRequest with the code 400.
C31_InvalidFyveIs400 ==
    (/\ trip.op \in {"ReceivedHtml", "ReceivedFyve"}
     /\ trip.frame.tag = "Ok"
     /\ FirstOperation.tag = "Ok"
     /\ IsInvalidOperation(FirstOperation.val, trip.op = "ReceivedFyve")) =>
        IsBadRequest(trip.decoded.res)

\* the fields of the payload of an InteractionRequest after the request_id
RequestParts(payload) == Split(SubSeq(payload, 9, Len(payload)), 0)

\* C32: for every payload of at least 64 bits whose function name or parent
\* name is empty or missing, the decoder of InteractionRequest returns an
\* Error of kind BadRequest with the code 400.
C32_EmptyNameIs400 ==
    (/\ trip.op = "ReceivedRequest"
     /\ Len(trip.input.payload) >= 8
     /\ \/ Len(RequestParts(trip.input.payload)) < 2
        \/ RequestParts(trip.input.payload)[1] = <<>>
        \/ RequestParts(trip.input.payload)[2] = <<>>) =>
        /\ trip.decoded # None
        /\ IsBadRequest(trip.decoded.res)

\* the last turn before turn i that read StartOfAttributes or a Utf8Chain
LastAttributeMark(steps, i) ==
    IF \E j \in 1..(i - 1) : steps[j].code \in {"StartOfAttributes", "Utf8Chain"}
    THEN CHOOSE j \in 1..(i - 1) :
             /\ steps[j].code \in {"StartOfAttributes", "Utf8Chain"}
             /\ \A k \in (j + 1)..(i - 1) :
                    steps[k].code \notin {"StartOfAttributes", "Utf8Chain"}
    ELSE 0

\* every Utf8Chain read in attributes leaves the same first tag with one
\* attribute more: the characters read since the last mark, with the text
AttributesAsSent(steps) ==
    \A i \in DOMAIN steps :
        (steps[i].code = "Utf8Chain" /\ steps[i].in_attributes /\ steps[i].res.tag = "Ok") =>
            /\ steps[i].after = steps[i].before
            /\ steps[i].attributes_before # None
            /\ CharsBetween(steps, LastAttributeMark(steps, i), i)
                   \notin DOMAIN steps[i].attributes_before.val
            /\ steps[i].attributes
                   = Some((CharsBetween(steps, LastAttributeMark(steps, i), i) :> steps[i].text)
                          @@ steps[i].attributes_before.val)

\* C33: each Utf8Chain the HTML decoder reads while in attributes adds to
\* the element opened for the enclosing StartOfTag exactly one attribute,
\* named by the characters read since the previous attribute value (or since
\* StartOfAttributes), its value being the text of the Utf8Chain.
C33_AttributePerChain ==
    (trip.op = "HtmlFileResponse" /\ trip.frame.tag = "Ok") => AttributesAsSent(HtmlSteps)

\* every turn of the loop that does not end decode moves the decoder on
TurnsConsume(steps) ==
    \A i \in DOMAIN steps :
        steps[i].res.tag = "Ok" => BLt(steps[i].position_before, steps[i].position)

\* C38: the decoding of an HtmlFileResponse or of a FullFyveResponse ends
\* for every buffer and returns Ok or an Error; every turn of the loop of
\* operations consumes at least one bit or leaves the loop.
C38_DecodeReturns ==
    /\ (trip.op \in {"ReceivedHtml", "ReceivedFyve", "HtmlFileResponse", "FullFyveResponse"}
        /\ trip.frame.tag = "Ok") =>
           trip.decoded.res.tag \in {"Ok", "Err"}
    /\ (trip.op = "HtmlFileResponse" /\ trip.frame.tag = "Ok") => TurnsConsume(HtmlSteps)

\* C39: the encoding of a FullFyveResponse for a file that holds a byte
\* outside the fyve alphabet is rejected with an Error, and no frame is made.
C39_UnknownByteRejected ==
    (/\ trip.op = "FullFyveResponse"
     /\ trip.input.file.tag = "Ok"
     /\ \E i \in DOMAIN trip.input.file.val :
            trip.input.file.val[i][1] \notin DOMAIN Server_CHARS) =>
        /\ trip.sent.tag = "Err"
        /\ trip.frame = None

\* C20: the position of the BitDecoder an event decoder has driven is at
\* most the length of the bits of that BitDecoder.
C20_PositionWithinLength ==
    (trip # NoCall /\ trip.decoded # None) =>
        BLe(trip.decoded.self.decoder.position, RunLen(trip.decoded.self.decoder.frame))

(***************************************************************************)
(* Fields written by one side and read by the other: the writer calls      *)
(* add_data for each field, the reader builds a BitDecoder from the bytes  *)
(* of encode() and calls read_data with the same widths.  bcall holds the  *)
(* fields written, dcall the results read.                                 *)
(***************************************************************************)
\* a writer appends at most MaxFields fields
MaxFields == 2

FieldWidths == {1, 5, 32}

FieldValues == {B(0), B(5), <<1, 2>>, <<Base - 1, Base - 1>>}

FieldBytes == {<<116>>, <<254, 1>>}

\* v mod 2^n, for n from 1 to 32
BModPow2(v, n) ==
    IF n >= 32 THEN v
    ELSE IF n > 16 THEN <<v[1] % 2^(n - 16), v[2]>>
    ELSE <<0, v[2] % 2^n>>

AppendField(data, n) ==
    /\ bdec = None
    /\ Len(bcall.fields) < MaxFields
    /\ \E r \in {add_data(benc, data, n)} :
           /\ benc' = r.self
           /\ bres' = r.res
    /\ bcall' = [bcall EXCEPT !.fields = Append(@, <<data, n>>),
                               !.calls = Append(@, [op |-> "add_data", data |-> data, n |-> n])]
    /\ UNCHANGED <<bdec, dcall, dres>>
    /\ UNCHANGED frameVars
    /\ UNCHANGED serverVars
    /\ UNCHANGED libVars
    /\ UNCHANGED deviceVars

\* add_bytes writes one field of 8 bits for each octet
AppendBytes(bytes) ==
    /\ bdec = None
    /\ Len(bcall.fields) + Len(bytes) <= MaxFields
    /\ \E r \in {add_bytes(benc, bytes)} :
           /\ benc' = r.self
           /\ bres' = r.res
    /\ bcall' = [bcall EXCEPT !.fields = @ \o [i \in DOMAIN bytes |-> <<B(bytes[i]), 8>>],
                               !.calls = Append(@, [op |-> "add_bytes", bytes |-> bytes])]
    /\ UNCHANGED <<bdec, dcall, dres>>
    /\ UNCHANGED frameVars
    /\ UNCHANGED serverVars
    /\ UNCHANGED libVars
    /\ UNCHANGED deviceVars

DecodeFields(order) ==
    /\ bdec = None
    /\ bdec' = [tag |-> "BitDecoder"] @@ BitDecoder_new(order, BitEncoder_encode(benc))
    /\ dcall' = [op |-> "fields", results |-> <<>>]
    /\ UNCHANGED <<benc, bcall, bres, dres>>
    /\ UNCHANGED frameVars
    /\ UNCHANGED serverVars
    /\ UNCHANGED libVars
    /\ UNCHANGED deviceVars

\* the next field is read with the width it was written with
ReadField ==
    /\ bdec # None
    /\ Len(dcall.results) < Len(bcall.fields)
    /\ \E r \in {read_data(bdec, bcall.fields[Len(dcall.results) + 1][2])} :
           /\ bdec' = r.self
           /\ dres' = r.res
           /\ dcall' = [dcall EXCEPT !.results = Append(@, r.res)]
    /\ UNCHANGED <<benc, bcall, bres>>
    /\ UNCHANGED frameVars
    /\ UNCHANGED serverVars
    /\ UNCHANGED libVars
    /\ UNCHANGED deviceVars

InitFields ==
    /\ benc \in {BitEncoder_new(o) : o \in Orders}
    /\ bcall = [op |-> "fields", fields |-> <<>>, calls |-> <<>>]
    /\ bres = None
    /\ bdec = None
    /\ dcall = NoCall
    /\ dres = None
    /\ fenc = None
    /\ fcall = NoCall
    /\ fres = None
    /\ wire = None
    /\ fdec = None
    /\ InitServerVars
    /\ InitLibVars

NextFields ==
    \/ \E data \in FieldValues, n \in FieldWidths : AppendField(data, n)
    \/ \E bytes \in FieldBytes : AppendBytes(bytes)
    \/ \E order \in Orders : DecodeFields(order)
    \/ ReadField

SpecFields == InitFields /\ [][NextFields]_vars

\* C21: when the fields (v_i, n_i) were written into an Lsb0 BitEncoder and
\* a Msb0 BitDecoder reads the bytes of encode() with the same widths, read
\* i returns Ok(v_i mod 2^(n_i)).
C21_FieldsRoundTrip ==
    (bdec # None /\ benc.order = Lsb0 /\ bdec.order = Msb0) =>
        \A i \in DOMAIN dcall.results :
            dcall.results[i] = Ok(BModPow2(bcall.fields[i][1], bcall.fields[i][2]))

\* two fields were read back, the first one narrower than its value and
\* ending inside a byte
C21_Witness ==
    /\ bdec # None
    /\ benc.order = Lsb0
    /\ bdec.order = Msb0
    /\ Len(dcall.results) = 2
    /\ bcall.fields[1] = <<<<Base - 1, Base - 1>>, 5>>
    /\ bcall.fields[2] = <<<<1, 2>>, 32>>

\* the encoder of the given order after the calls made so far
RECURSIVE Replayed(_, _)
Replayed(order, calls) ==
    IF calls = <<>> THEN BitEncoder_new(order)
    ELSE LET call == calls[Len(calls)]
             before == Replayed(order, SubSeq(calls, 1, Len(calls) - 1))
         IN  IF call.op = "add_data" THEN add_data(before, call.data, call.n).self
             ELSE add_bytes(before, call.bytes).self

\* C22: after the same calls of add_data and add_bytes, encode() of a Lsb0
\* and of a Msb0 BitEncoder return the same number of bytes, and each byte of
\* one is the other's byte at the same index with its bits reversed.
C22_OrdersMirrorBytes ==
    LET lsb == BitEncoder_encode(Replayed(Lsb0, bcall.calls))
        msb == BitEncoder_encode(Replayed(Msb0, bcall.calls))
    IN  /\ benc.frame = Replayed(benc.order, bcall.calls).frame
        /\ RunLen(lsb) = RunLen(msb)
        /\ \A k \in 0..(BInt(RunLen(lsb)) - 1) :
               RunGetOr(msb, B(k), 256) = reverse_bits(RunGetOr(lsb, B(k), 256))

\* both kinds of call were made, the bits end inside a byte, and the two
\* byte vectors differ
C22_Witness ==
    /\ Len(bcall.calls) = 2
    /\ bcall.calls[1].op = "add_bytes"
    /\ bcall.calls[2].op = "add_data"
    /\ BMod8(RunLen(benc.frame)) = 5
    /\ BitEncoder_encode(Replayed(Lsb0, bcall.calls)) # BitEncoder_encode(Replayed(Msb0, bcall.calls))


(***************************************************************************)
(* The connection table DEVICES (protocol/prelude.rs) and the tasks that   *)
(* lock it: listen of server/tcp.rs, connect and send_raw_event of         *)
(* client/ws.rs, and stop.  DEVICES.map holds the kind of listener under   *)
(* each key, DEVICES.holder the task that owns the MutexGuard,             *)
(* DEVICES.poisoned whether a guard was dropped by a panic.  Each task is  *)
(* a thread of its own; tasks[t].pc is the statement it stands at, key the *)
(* key it was called with, inputs the number of connections accepted or    *)
(* messages read so far.  What the peer does (a connection or a message    *)
(* arrives, the peer closes) is the input ok of the steps that wait for    *)
(* the network.                                                            *)
(***************************************************************************)
\* listen accepts at most MaxAccepts connections
MaxAccepts == 2

\* connect reads at most MaxMessages messages
MaxMessages == 2

\* ("127.0.0.1", port) of listen and (ip, port) of connect
ServerKey == "127.0.0.1:8080"

ClientKey == "157.165.164.160:8080"

At(t, pc) == tasks[t].pc = pc

Goto(t, pc) == [tasks EXCEPT ![t].pc = pc]

devices_insert(key, listener) == [DEVICES EXCEPT !.map = (key :> listener) @@ @]

devices_remove(key) ==
    [DEVICES EXCEPT !.map = [k \in DOMAIN @ \ {key} |-> @[k]]]

\* the guard of the holder is dropped; by a panic if panicking
Unlock(panicking) ==
    [DEVICES EXCEPT !.holder = "none", !.poisoned = @ \/ panicking]

\* listen(port): bind, then DEVICES.lock().unwrap().insert(..) in one statement
Listen_insert ==
    /\ At("listen", "idle")
    /\ DEVICES.holder = "none"
    /\ IF DEVICES.poisoned
       THEN /\ tasks' = Goto("listen", "panicked")
            /\ UNCHANGED DEVICES
       ELSE /\ DEVICES' = devices_insert(ServerKey, "TokioServer")
            /\ tasks' = [tasks EXCEPT !["listen"] = [pc |-> "loop", key |-> ServerKey,
                                                     inputs |-> 0]]
    /\ UNCHANGED bitVars
    /\ UNCHANGED frameVars
    /\ UNCHANGED serverVars
    /\ UNCHANGED libVars

\* the head of `while let Ok(..) = DEVICES.lock().unwrap().get(&key).unwrap()
\* .get_tokio_server().accept().await`: the guard is a temporary of the
\* condition and lives until the turn of the loop ends
Listen_lock ==
    /\ At("listen", "loop")
    /\ DEVICES.holder = "none"
    /\ IF DEVICES.poisoned
       THEN /\ tasks' = Goto("listen", "panicked")
            /\ UNCHANGED DEVICES
       ELSE IF ServerKey \notin DOMAIN DEVICES.map
       THEN /\ tasks' = Goto("listen", "panicked")
            /\ DEVICES' = [DEVICES EXCEPT !.poisoned = TRUE]
       ELSE /\ tasks' = Goto("listen", "accept")
            /\ DEVICES' = [DEVICES EXCEPT !.holder = "listen"]
    /\ UNCHANGED bitVars
    /\ UNCHANGED frameVars
    /\ UNCHANGED serverVars
    /\ UNCHANGED libVars

\* accept().await returns: with a connection (ok), a thread is spawned for it
\* and the turn ends; with an error the loop ends.  Either way the guard is
\* dropped here.
Listen_accept(ok) ==
    /\ At("listen", "accept")
    /\ ok => tasks["listen"].inputs < MaxAccepts
    /\ tasks' = [tasks EXCEPT !["listen"].pc = IF ok THEN "loop" ELSE "done",
                              !["listen"].inputs = IF ok THEN @ + 1 ELSE @]
    /\ DEVICES' = Unlock(FALSE)
    /\ UNCHANGED bitVars
    /\ UNCHANGED frameVars
    /\ UNCHANGED serverVars
    /\ UNCHANGED libVars

\* connect(ip, port): TcpStream::connect, which fails (~ok) or gives a
\* stream, then DEVICES.lock().unwrap().insert(..) in one statement
Connect_insert(ok) ==
    /\ At("connect", "idle")
    /\ DEVICES.holder = "none"
    /\ IF ~ok
       THEN /\ tasks' = Goto("connect", "done")
            /\ UNCHANGED DEVICES
       ELSE IF DEVICES.poisoned
       THEN /\ tasks' = Goto("connect", "panicked")
            /\ UNCHANGED DEVICES
       ELSE /\ DEVICES' = devices_insert(ClientKey, "StdClient")
            /\ tasks' = [tasks EXCEPT !["connect"] = [pc |-> "lock", key |-> ClientKey,
                                                      inputs |-> 0]]
    /\ UNCHANGED bitVars
    /\ UNCHANGED frameVars
    /\ UNCHANGED serverVars
    /\ UNCHANGED libVars

\* let mut devices = DEVICES.lock().unwrap(); devices.get_mut(&key).unwrap():
\* the guard lives until connect returns
Connect_lock ==
    /\ At("connect", "lock")
    /\ DEVICES.holder = "none"
    /\ IF DEVICES.poisoned
       THEN /\ tasks' = Goto("connect", "panicked")
            /\ UNCHANGED DEVICES
       ELSE IF ClientKey \notin DOMAIN DEVICES.map
       THEN /\ tasks' = Goto("connect", "panicked")
            /\ DEVICES' = [DEVICES EXCEPT !.poisoned = TRUE]
       ELSE /\ tasks' = Goto("connect", "handshake")
            /\ DEVICES' = [DEVICES EXCEPT !.holder = "connect"]
    /\ UNCHANGED bitVars
    /\ UNCHANGED frameVars
    /\ UNCHANGED serverVars
    /\ UNCHANGED libVars

\* client(request, real_stream) has read the answer of the server: the
\* WebSocket is open (ok) or connect returns the error
Connect_handshake(ok) ==
    /\ At("connect", "handshake")
    /\ tasks' = Goto("connect", IF ok THEN "read" ELSE "done")
    /\ DEVICES' = IF ok THEN DEVICES ELSE Unlock(FALSE)
    /\ UNCHANGED bitVars
    /\ UNCHANGED frameVars
    /\ UNCHANGED serverVars
    /\ UNCHANGED libVars

\* guard.read() of handle_connection returns: with a message (ok), which
\* handle_message handles, or with an error, and connect returns
Connect_read(ok) ==
    /\ At("connect", "read")
    /\ ok => tasks["connect"].inputs < MaxMessages
    /\ tasks' = [tasks EXCEPT !["connect"].pc = IF ok THEN "read" ELSE "done",
                              !["connect"].inputs = IF ok THEN @ + 1 ELSE @]
    /\ DEVICES' = IF ok THEN DEVICES ELSE Unlock(FALSE)
    /\ UNCHANGED bitVars
    /\ UNCHANGED frameVars
    /\ UNCHANGED serverVars
    /\ UNCHANGED libVars

\* a task calls stop(ip, port) or send_raw_event(to, event)
Call(t, key) ==
    /\ At(t, "idle")
    /\ tasks' = [tasks EXCEPT ![t] = [pc |-> "lock", key |-> key, inputs |-> 0]]
    /\ UNCHANGED DEVICES
    /\ UNCHANGED bitVars
    /\ UNCHANGED frameVars
    /\ UNCHANGED serverVars
    /\ UNCHANGED libVars

\* stop: the lock is taken, the listener removed and dropped or shut down,
\* and the guard dropped when stop returns
Stop_run ==
    /\ At("stop", "lock")
    /\ DEVICES.holder = "none"
    /\ IF DEVICES.poisoned
       THEN /\ tasks' = Goto("stop", "panicked")
            /\ UNCHANGED DEVICES
       ELSE /\ tasks' = Goto("stop", "done")
            /\ DEVICES' = devices_remove(tasks["stop"].key)
    /\ UNCHANGED bitVars
    /\ UNCHANGED frameVars
    /\ UNCHANGED serverVars
    /\ UNCHANGED libVars

\* send_raw_event: the lock is taken, devices.get_mut(&to).unwrap()
\* .get_std_client() gives the stream, the frame is written, and the guard
\* dropped when the function returns
Send_run ==
    /\ At("send_raw_event", "lock")
    /\ DEVICES.holder = "none"
    /\ IF DEVICES.poisoned
       THEN /\ tasks' = Goto("send_raw_event", "panicked")
            /\ UNCHANGED DEVICES
       ELSE IF \/ tasks["send_raw_event"].key \notin DOMAIN DEVICES.map
               \/ DEVICES.map[tasks["send_raw_event"].key] # "StdClient"
       THEN /\ tasks' = Goto("send_raw_event", "panicked")
            /\ DEVICES' = [DEVICES EXCEPT !.poisoned = TRUE]
       ELSE /\ tasks' = Goto("send_raw_event", "done")
            /\ UNCHANGED DEVICES
    /\ UNCHANGED bitVars
    /\ UNCHANGED frameVars
    /\ UNCHANGED serverVars
    /\ UNCHANGED libVars

InitDevices ==
    /\ benc = BitEncoder_new(Lsb0)
    /\ bcall = NoCall
    /\ bres = None
    /\ bdec = None
    /\ dcall = NoCall
    /\ dres = None
    /\ fenc = None
    /\ fcall = NoCall
    /\ fres = None
    /\ wire = None
    /\ fdec = None
    /\ InitServerVars
    /\ InitLibVars

NextDevices ==
    \/ Listen_insert
    \/ Listen_lock
    \/ \E ok \in BOOLEAN : Listen_accept(ok)
    \/ \E ok \in BOOLEAN : Connect_insert(ok)
    \/ Connect_lock
    \/ \E ok \in BOOLEAN : Connect_handshake(ok)
    \/ \E ok \in BOOLEAN : Connect_read(ok)
    \/ \E t \in {"stop", "send_raw_event"}, key \in {ServerKey, ClientKey} : Call(t, key)
    \/ Stop_run
    \/ Send_run

SpecDevices == InitDevices /\ [][NextDevices]_vars

\* Every step that does not wait for the network is taken when it stays
\* possible, and a task that waits for the lock gets it if the lock is free
\* again and again.  Nothing is assumed of the peer: no connection and no
\* message need ever arrive.
SpecDevicesFair ==
    /\ SpecDevices
    /\ WF_vars(Listen_insert) /\ WF_vars(Listen_lock)
    /\ WF_vars(Connect_insert(TRUE)) /\ WF_vars(Connect_lock)
    /\ SF_vars(Stop_run) /\ SF_vars(Send_run)

\* the tasks that wait for the network: listen in accept, connect in the
\* handshake and in read
WaitsForNetwork(t) ==
    \/ t = "listen" /\ At(t, "accept")
    \/ t = "connect" /\ (At(t, "handshake") \/ At(t, "read"))

NoLockWhileWaiting ==
    \A t \in DOMAIN tasks : WaitsForNetwork(t) => DEVICES.holder # t

\* C34: no task holds the lock of DEVICES while it waits for the network,
\* and a stop or send_raw_event that was called gets the lock in the end.
C34_LockFreeWhileWaiting ==
    /\ []NoLockWhileWaiting
    /\ \A t \in {"stop", "send_raw_event"} : At(t, "lock") ~> ~At(t, "lock")


(***************************************************************************)
(* Texts written by the HTML emitter and read back: append_text writes a   *)
(* text into a new BitEncoder as a child of an element <p>, the octets of  *)
(* encode() are given to a BitDecoder<Msb0>, and the reader takes one      *)
(* operation as the loop of HtmlFileResponse::decode does.                 *)
(***************************************************************************)
\* the short texts have at most MaxText octets
MaxText == 4

\* a blank, the letters a and x
TextOctets == {32, 97, 120}

ShortTexts == UNION {[1..n -> TextOctets] : n \in 1..MaxText}

\* a text of 2^15 octets: the letter a, 32768 times
LongText == [i \in 1..32768 |-> 97]

\* the operation read from bytes and, for a Utf8Chain, the text read and the
\* position after it
ReadChainOp(bytes) ==
    LET read(op) ==
            IF op.res.tag # "Ok" THEN [op |-> op.res, text |-> <<>>, position |-> op.self.position]
            ELSE IF op.res.val.kind # "System"
            THEN [op |-> op.res, text |-> <<>>, position |-> op.self.position]
            ELSE LET l == OnCode(Locals(op.self, HtmlTag_new(<<>>)), op.res.val.code.val)
                 IN  [op |-> op.res, text |-> l.text, position |-> l.decoder.position]
    IN  read(get_op(BitDecoder_new(Msb0, bytes)))

\* the octets of encode() after append_text, or the error of append_text
WrittenText(text) ==
    LET encoded(w) ==
            IF w.res.tag = "Ok"
            THEN [bytes |-> Ok(BitEncoder_encode(w.self)), written |-> RunLen(w.self.frame)]
            ELSE [bytes |-> w.res, written |-> RunLen(w.self.frame)]
    IN  encoded(append_text(BitEncoder_new(Lsb0), Some(Element(<<112>>, <<>>, <<>>)), text))

WriteText(text) ==
    /\ trip = NoCall
    /\ \E w \in {WrittenText(text)} :
           trip' = [op |-> "append_text", input |-> text, sent |-> w.bytes,
                    frame |-> None, decoded |-> None, written |-> w.written,
                    read |-> IF w.bytes.tag = "Ok" THEN ReadChainOp(w.bytes.val) ELSE None]
    /\ UNCHANGED <<registry_lsb, once, log>>
    /\ UNCHANGED bitVars
    /\ UNCHANGED frameVars
    /\ UNCHANGED serverVars
    /\ UNCHANGED deviceVars

\* what the loop of FullFyveResponse::encode adds for one character, given
\* to the reader: get_op, then get_char
WriteCharacter(c, checks) ==
    /\ trip = NoCall
    /\ \E w \in {add_bitvec(BitEncoder_new(Lsb0), ContentBits(<< <<c, 1>> >>))} :
           trip' = [op |-> "add_bitvec", input |-> c,
                    sent |-> IF w.res.tag = "Ok" THEN Ok(BitEncoder_encode(w.self)) ELSE w.res,
                    frame |-> None, decoded |-> None, written |-> RunLen(w.self.frame),
                    read |-> LET op == get_op(BitDecoder_new(Msb0, BitEncoder_encode(w.self)))
                             IN  [op |-> op.res,
                                  char |-> IF op.res.tag = "Ok" THEN get_char(op.res.val, checks)
                                           ELSE None,
                                  position |-> op.self.position]]
    /\ UNCHANGED <<registry_lsb, once, log>>
    /\ UNCHANGED bitVars
    /\ UNCHANGED frameVars
    /\ UNCHANGED serverVars
    /\ UNCHANGED deviceVars

InitTexts == InitEvents

NextTexts ==
    \/ \E text \in ShortTexts \cup {LongText} : WriteText(text)
    \/ \E c \in DOMAIN Server_CHARS, checks \in BOOLEAN : WriteCharacter(c, checks)

SpecTexts == InitTexts /\ [][NextTexts]_vars

\* C36: for every text that append_text writes as a Utf8Chain, the reader
\* finds a Utf8Chain whose text is that text, and stands right after its
\* octets: 10 bits of operation, 15 bits of length, 8 bits for each octet.
C36_ChainLengthIsTextLength ==
    (trip.op = "append_text" /\ trip.sent.tag = "Ok" /\ trip.written # B(0)) =>
        /\ trip.read.op.tag = "Ok"
        /\ trip.read.op.val.code = Some("Utf8Chain")
        /\ trip.read.text = trip.input
        /\ trip.read.position = B(25 + 8 * Len(trip.input))


\* the 5-bit chunks of a bit string, each as a number, most significant bit
\* first
FyveChunks(bits) ==
    [k \in 1..(Len(bits) \div 5) |->
        16 * bits[5 * k - 4] + 8 * bits[5 * k - 3] + 4 * bits[5 * k - 2]
        + 2 * bits[5 * k - 1] + bits[5 * k]]

\* the code of the reader for the bit string of the emitter
CodeOf(c) == FyveValue(FyveChunks(Server_CHARS[c]))

\* C37: the table of the emitter and the table of the reader are inverse of
\* each other: they hold the same characters; the bit string of each
\* character, taken as 5-bit chunks, is the code of the reader for it; no two
\* characters share a code; the last chunk of a code is neither 00000 nor
\* 11111.  Hence a character written with one table is read with the other.
C37_TablesInverse ==
    /\ {Client_CHARS[k] : k \in DOMAIN Client_CHARS} = DOMAIN Server_CHARS
    /\ \A c \in DOMAIN Server_CHARS :
           /\ Len(Server_CHARS[c]) % 5 = 0
           /\ CodeOf(c) \in DOMAIN Client_CHARS
           /\ Client_CHARS[CodeOf(c)] = c
    /\ \A j, k \in DOMAIN Client_CHARS : Client_CHARS[j] = Client_CHARS[k] => j = k
    /\ \A k \in DOMAIN Client_CHARS : k % 32 \notin {0, 31}
    /\ trip.op = "add_bitvec" =>
           /\ trip.read.char = Ok(trip.input)
           /\ trip.read.position = trip.written

\* the character & was written with its 20 bits and read back
C37_Witness ==
    /\ trip.op = "add_bitvec"
    /\ trip.input = 38
    /\ trip.written = B(20)
    /\ trip.read.op.tag = "Ok"
    /\ trip.read.op.val.value = <<31, 31, 31, 5>>
    /\ trip.read.char = Ok(38)

====
